---------------------------- MODULE Spec2Model ----------------------------
(***************************************************************************)
(* Verification model of the zenith trading platform.                      *)
(*                                                                         *)
(* Decimal amounts are modelled as integers on a fixed grid:               *)
(*   - a quantity is a count of quantity units,                            *)
(*   - a price is a count of price units,                                  *)
(*   - money (cash, fee, cost, equity) is a count of price x quantity      *)
(*     units, so price * quantity is exact as it is for Decimal.           *)
(* Percentages are kept as numerator/denominator pairs.  The only Decimal  *)
(* operation that leaves the grid is the division of the volume-weighted   *)
(* entry price, which is truncated (it is exact when opening from flat).   *)
(*                                                                         *)
(* The module holds several specifications over one set of variables:      *)
(*   SpecPortfolio  the Portfolio ledger driven by arbitrary executions,   *)
(*                  reconciliations and initial syncs;                     *)
(*   SpecRisk       SimpleRiskManager::evaluate_signal applied to          *)
(*                  arguments drawn from bounded sets;                     *)
(*   SpecBacktest   one Backtester::run over arbitrary bars and strategy   *)
(*                  outputs;                                               *)
(*   SpecTwoRuns    two Backtester::run over the same bars and strategy    *)
(*                  outputs, each reading the wall clock on its own;       *)
(*   SpecEngine     LiveEngine::run with its stream tasks and the          *)
(*                  StateReconciler task sharing the locked portfolio;     *)
(*   SpecEngineFair the same under the scheduling of the runtime;          *)
(*   SpecReconciler the StateReconciler task on its own;                   *)
(*   SpecConnector  the reconnecting WebSocket tasks of LiveConnector.     *)
(* Each specification leaves the variables of the others at their idle     *)
(* values.                                                                 *)
(***************************************************************************)
EXTENDS Integers, Sequences, FiniteSets, TLC

VARIABLES
    portfolio,   \* executor::Portfolio {cash, positions}
    ledger,      \* history: what the accepted executions add up to
    last_call,   \* history: the last operation on the portfolio, its input and result
    event_tx,    \* PortfolioState messages sent on the broadcast channel
    ops,         \* number of operations performed so far
    snapshots,   \* number of exchange snapshots requested so far
    risk_call,   \* one call of SimpleRiskManager::evaluate_signal: its arguments and result
    bt,          \* a Backtester and the locals of its run
    bt2,         \* a second Backtester run on the same inputs
    engine,      \* LiveEngine::run: its position and the locals of the event in hand
    reconciler,  \* the StateReconciler task: its position and the snapshot it fetched
    lock,        \* who holds the Mutex of the shared portfolio
    event_in,    \* the fan-in mpsc channel of LiveEvents
    streams,     \* the stream tasks feeding the fan-in channel
    logs,        \* Warn and Error messages logged by the engine and the reconciler
    connector,   \* the LiveConnector tasks: their connections and their channels
    bus,         \* the broadcast channel of WsMessages, its producers and its receivers
    jobs,        \* a workflow that creates BacktestRun rows, and the rows
    gen,         \* one call of generate_parameter_sets: its argument and result
    wfo,         \* one call of generate_walk_forward_periods: its arguments and result
    call,        \* one call of a function of the analyzer or the executors: its arguments and result
    pipe         \* the kline stream tasks, their channels and the klines the main loop handled

pf_vars == <<portfolio, ledger, last_call, event_tx, ops, snapshots>>
risk_vars == <<risk_call>>
bt_vars == <<bt, bt2>>
eng_vars == <<engine, reconciler, lock, event_in, streams, logs>>
svc_vars == <<bus, jobs, gen, wfo, call, pipe>>
io_vars == <<connector, svc_vars>>
vars == <<pf_vars, risk_vars, bt_vars, eng_vars, io_vars>>

-----------------------------------------------------------------------------
(* Bounds                                                                  *)

\* operations applied to the portfolio in SpecPortfolio
MaxOps == 3
\* exchange snapshots (reconciliations and syncs) among those operations
MaxSnapshots == 1
\* entries of one balance response
MaxBalances == 1
\* entries of one position-risk response
MaxPositions == 1

Symbols == {"BTCUSDT", "XRPUSDT"}
Sides == {"Buy", "Sell"}
Assets == {"USDT", "BNB"}

InitialCapitals == {1, 4}
ExecPrices == {1, 3}
ExecQuantities == {0, 1, 2}
ExecFees == {0, 1}
BalanceAmounts == {7}
PositionAmts == {-1, 0, 2}
EntryPrices == {5}

-----------------------------------------------------------------------------
(* Helpers                                                                 *)

Abs(x) == IF x < 0 THEN 0 - x ELSE x

Min(a, b) == IF a <= b THEN a ELSE b

\* OrderSide::opposite
opposite(side) == IF side = "Buy" THEN "Sell" ELSE "Buy"

\* all sequences over S of length at most n
SeqsUpTo(S, n) == UNION {[1..k -> S] : k \in 0..n}

\* Option<T>
None == [some |-> FALSE]
Some(v) == [some |-> TRUE, value |-> v]

\* Decimal::is_sign_negative / is_sign_positive (zero carries a positive sign)
is_sign_negative(d) == d < 0
is_sign_positive(d) == d >= 0

-----------------------------------------------------------------------------
(* executor::Portfolio                                                     *)

\* Portfolio::new
PortfolioNew(initial_capital) == [cash |-> initial_capital, positions |-> <<>>]

\* Portfolio::get_position
get_position(p, symbol) ==
    IF symbol \in DOMAIN p.positions THEN Some(p.positions[symbol]) ELSE None

\* self.positions.remove(symbol)
MapRemove(m, k) == [x \in (DOMAIN m) \ {k} |-> m[x]]

\* self.positions.insert(symbol, v) / entry(symbol).or_insert
MapInsert(m, k, v) == [x \in (DOMAIN m) \cup {k} |-> IF x = k THEN v ELSE m[x]]

\* the cash update with the fee left out
CashAfterNoFee(cash, e) ==
    LET cost == e.price * e.quantity
    IN IF e.side = "Buy" THEN cash - cost ELSE cash + cost

\* the cash update of update_with_execution (lines 37-41)
CashAfter(cash, e) ==
    LET cost == e.price * e.quantity
    IN (IF e.side = "Buy" THEN cash - cost ELSE cash + cost) - e.fee

\* the updated position always written back, a zero quantity included
RemoveIfZeroNever(positions, symbol, position) == MapInsert(positions, symbol, position)

\* lines 92-95: the updated position is written back, or removed when its
\* quantity is zero
RemoveIfZero(positions, symbol, position) ==
    IF position.quantity = 0
    THEN MapRemove(positions, symbol)
    ELSE MapInsert(positions, symbol, position)

\* the position update of update_with_execution (lines 50-95), on the map
\* that already holds cash1; returns the new portfolio and the result
PositionUpdate(p, cash1, e) ==
    LET symbol == e.symbol
        \* entry(symbol).or_insert_with(...)
        entered == IF symbol \in DOMAIN p.positions
                   THEN p.positions
                   ELSE MapInsert(p.positions, symbol,
                                  [side |-> e.side, quantity |-> 0, entry_price |-> 0])
        position == entered[symbol]
        is_closing_trade == is_sign_positive(position.quantity) /\ position.side /= e.side
        closed == [position EXCEPT !.quantity = @ - e.quantity]
        existing_value == position.entry_price * position.quantity
        new_value == e.price * e.quantity
        total_quantity == position.quantity + e.quantity
        opened == [side |-> e.side,
                   quantity |-> position.quantity + e.quantity,
                   entry_price |-> IF total_quantity /= 0
                                   THEN (existing_value + new_value) \div total_quantity
                                   ELSE position.entry_price]
        updated == IF is_closing_trade THEN closed ELSE opened
        final == RemoveIfZero(entered, symbol, updated)
    IN IF is_closing_trade /\ e.quantity > position.quantity
       THEN [portfolio |-> [cash |-> cash1, positions |-> entered],
             result |-> "InvalidClosingQuantity"]
       ELSE [portfolio |-> [cash |-> cash1, positions |-> final],
             result |-> "Ok"]

\* Portfolio::update_with_execution: the portfolio it leaves and what it returns
update_with_execution(p, e) ==
    LET cash1 == CashAfter(p.cash, e)
    IN IF is_sign_negative(cash1)
       THEN [portfolio |-> [p EXCEPT !.cash = cash1], result |-> "InsufficientCash"]
       ELSE PositionUpdate(p, cash1, e)

\* Portfolio::calculate_total_equity; every position's symbol must be priced
calculate_total_equity(p, market_prices) ==
    LET RECURSIVE Sum(_)
        Sum(S) == IF S = {} THEN 0
                  ELSE LET s == CHOOSE x \in S : TRUE
                           position == p.positions[s]
                           current_price == market_prices[s]
                           pnl_per_unit == IF position.side = "Buy"
                                           THEN current_price - position.entry_price
                                           ELSE position.entry_price - current_price
                           market_value == (position.entry_price * position.quantity)
                                           + (pnl_per_unit * position.quantity)
                       IN market_value + Sum(S \ {s})
    IN p.cash + Sum(DOMAIN p.positions)

-----------------------------------------------------------------------------
(* Exchange snapshots: GET /fapi/v2/balance and GET /fapi/v2/positionRisk   *)

BalanceResponse == [asset : Assets, available_balance : BalanceAmounts]
PositionResponse == [symbol : Symbols, position_amt : PositionAmts, entry_price : EntryPrices]

\* Result<Vec<BalanceResponse>, ApiError>
BalanceResults == {[ok |-> FALSE]} \cup
                  {[ok |-> TRUE, value |-> v] : v \in SeqsUpTo(BalanceResponse, MaxBalances)}
\* Result<Vec<PositionResponse>, ApiError>
PositionResults == {[ok |-> FALSE]} \cup
                   {[ok |-> TRUE, value |-> v] : v \in SeqsUpTo(PositionResponse, MaxPositions)}

\* balances.iter().find(|b| b.asset == "USDT")
FindUsdt(balances) ==
    LET idx == {i \in 1..Len(balances) : balances[i].asset = "USDT"}
    IN IF idx = {} THEN None
       ELSE Some(balances[CHOOSE i \in idx : \A j \in idx : i <= j])

\* the position built from one PositionResponse (reconciler.rs 99-113, lib.rs 188-203)
PositionFromExchange(pos) ==
    [side |-> IF is_sign_positive(pos.position_amt) THEN "Buy" ELSE "Sell",
     quantity |-> Abs(pos.position_amt),
     entry_price |-> pos.entry_price]

\* the non-zero entries inserted in order into a map keyed by symbol: a later
\* entry of the same symbol replaces an earlier one
PositionsFromExchange(live_positions) ==
    LET open(s) == {i \in 1..Len(live_positions) :
                       /\ live_positions[i].symbol = s
                       /\ live_positions[i].position_amt /= 0}
        last(s) == CHOOSE i \in open(s) : \A j \in open(s) : j <= i
    IN [s \in {x \in Symbols : open(x) /= {}} |-> PositionFromExchange(live_positions[last(s)])]

\* events::PortfolioState as the reconciler and the engine build it
PortfolioStateMsg(p) == [cash |-> p.cash, positions |-> p.positions, total_value |-> p.cash]

\* the portfolio written by StateReconciler::run_reconciliation from a fetched snapshot
ReconcileApply(p, live_balances, live_positions) ==
    LET usdt_balance == FindUsdt(live_balances)
        cash1 == IF usdt_balance.some /\ p.cash /= usdt_balance.value.available_balance
                 THEN usdt_balance.value.available_balance
                 ELSE p.cash
    IN [cash |-> cash1, positions |-> PositionsFromExchange(live_positions)]

\* a failed fetch after the local positions were already cleared
ReconcileOnErrClears(p) == [p EXCEPT !.positions = <<>>]

\* reconciler.rs 65-66: a failed fetch returns through `?` before the portfolio
\* lock is taken; the portfolio is the one the pass found
ReconcileOnErr(p) == p

\* the portfolio written by LiveEngine::sync_portfolio_state from a fetched snapshot
SyncApply(p, balances, positions) ==
    LET usdt_balance == FindUsdt(balances)
    IN [cash |-> IF usdt_balance.some THEN usdt_balance.value.available_balance ELSE 0,
        positions |-> PositionsFromExchange(positions)]

-----------------------------------------------------------------------------
(* SpecPortfolio: one Portfolio driven by executions and exchange snapshots *)

Execution == [symbol : Symbols, side : Sides, price : ExecPrices,
              quantity : ExecQuantities, fee : ExecFees]

LedgerNew(c) == [initial_cash |-> c, sells |-> 0, buys |-> 0, fees |-> 0, all_ok |-> TRUE]

\* history bookkeeping of one update_with_execution call
LedgerAfter(l, e, result) ==
    IF result = "Ok" /\ l.all_ok
    THEN [l EXCEPT !.sells = IF e.side = "Sell" THEN @ + e.price * e.quantity ELSE @,
                   !.buys = IF e.side = "Buy" THEN @ + e.price * e.quantity ELSE @,
                   !.fees = @ + e.fee]
    ELSE [l EXCEPT !.all_ok = FALSE]

NoCall == [op |-> "none"]

\* no risk evaluation in progress
RiskIdle == risk_call = [state |-> "idle"]

\* no backtest created
BtIdle == bt = [status |-> "idle"] /\ bt2 = [status |-> "idle"]

\* no live engine constructed
EngIdle ==
    /\ engine = [pc |-> "idle"]
    /\ reconciler = [pc |-> "idle"]
    /\ lock = "free"
    /\ event_in = <<>>
    /\ streams = [status |-> "idle"]
    /\ logs = <<>>

\* no LiveConnector subscription made
ConnectorIdle == connector = [status |-> "idle"]

\* no broadcast channel created
BusIdle == bus = [status |-> "idle"]

\* no workflow started
JobsIdle == jobs = [status |-> "idle"]

\* no parameter space expanded
GenIdle == gen = [status |-> "idle"]

\* no walk-forward periods generated
WfoIdle == wfo = [status |-> "idle"]

\* no function called
CallIdle == call = [status |-> "idle"]

\* no kline stream subscribed
PipeIdle == pipe = [status |-> "idle"]

SvcIdle == BusIdle /\ JobsIdle /\ GenIdle /\ WfoIdle /\ CallIdle /\ PipeIdle

IoIdle == ConnectorIdle /\ SvcIdle

InitPortfolio ==
    /\ RiskIdle
    /\ BtIdle
    /\ EngIdle
    /\ IoIdle
    /\ \E c \in InitialCapitals :
          /\ portfolio = PortfolioNew(c)
          /\ ledger = LedgerNew(c)
    /\ last_call = NoCall
    /\ event_tx = <<>>
    /\ ops = 0
    /\ snapshots = 0

\* a caller applies one execution
UpdateWithExecution ==
    /\ ops < MaxOps
    /\ \E e \in Execution :
          LET r == update_with_execution(portfolio, e)
          IN /\ portfolio' = r.portfolio
             /\ ledger' = LedgerAfter(ledger, e, r.result)
             /\ last_call' = [op |-> "update_with_execution", execution |-> e,
                              before |-> portfolio, result |-> r.result]
    /\ ops' = ops + 1
    /\ UNCHANGED <<event_tx, snapshots, risk_vars, bt_vars, eng_vars, io_vars>>

\* one pass of StateReconciler::run_reconciliation
RunReconciliation ==
    /\ ops < MaxOps
    /\ snapshots < MaxSnapshots
    /\ snapshots' = snapshots + 1
    /\ \E balances_result \in BalanceResults, positions_result \in PositionResults :
          IF balances_result.ok /\ positions_result.ok
          THEN LET p1 == ReconcileApply(portfolio, balances_result.value, positions_result.value)
               IN /\ portfolio' = p1
                  /\ event_tx' = Append(event_tx, PortfolioStateMsg(p1))
                  /\ last_call' = [op |-> "run_reconciliation", result |-> "Ok",
                                   before |-> portfolio,
                                   balances |-> balances_result.value,
                                   positions |-> positions_result.value]
          ELSE /\ portfolio' = ReconcileOnErr(portfolio)
               /\ UNCHANGED event_tx
               /\ last_call' = [op |-> "run_reconciliation", result |-> "Api",
                                before |-> portfolio]
    /\ ledger' = [ledger EXCEPT !.all_ok = FALSE]
    /\ ops' = ops + 1
    /\ UNCHANGED <<risk_vars, bt_vars, eng_vars, io_vars>>

\* one call of LiveEngine::sync_portfolio_state
SyncPortfolioState ==
    /\ ops < MaxOps
    /\ snapshots < MaxSnapshots
    /\ snapshots' = snapshots + 1
    /\ \E balances_result \in BalanceResults, positions_result \in PositionResults :
          IF balances_result.ok /\ positions_result.ok
          THEN /\ portfolio' = SyncApply(portfolio, balances_result.value, positions_result.value)
               /\ last_call' = [op |-> "sync_portfolio_state", result |-> "Ok",
                                before |-> portfolio,
                                balances |-> balances_result.value,
                                positions |-> positions_result.value]
          ELSE /\ UNCHANGED portfolio
               /\ last_call' = [op |-> "sync_portfolio_state", result |-> "Api",
                                before |-> portfolio]
    /\ ledger' = [ledger EXCEPT !.all_ok = FALSE]
    /\ ops' = ops + 1
    /\ UNCHANGED <<event_tx, risk_vars, bt_vars, eng_vars, io_vars>>

NextPortfolio ==
    \/ UpdateWithExecution
    \/ RunReconciliation
    \/ SyncPortfolioState

SpecPortfolio == InitPortfolio /\ [][NextPortfolio]_vars

-----------------------------------------------------------------------------
(* risk::SimpleRiskManager                                                 *)
(*                                                                         *)
(* Quantities are counted in millionths (the 6 decimal places that         *)
(* evaluate_signal rounds to); a percentage is a record [num, den].        *)

\* one whole quantity unit, in quantity-grid units (10^6)
QtyOne == 1000000

Pct(n, d) == [num |-> n, den |-> d]

\* greatest common divisor of two positive integers
RECURSIVE GCD(_, _)
GCD(a, b) == IF b = 0 THEN a ELSE GCD(b, a % b)

\* Decimal::round / round_dp of the non-negative quotient n / d: to the nearest
\* integer, a midpoint to the even neighbour (banker's rounding)
RoundHalfEven(n, d) ==
    LET q == n \div d
        r == n % d
    IN IF 2 * r < d THEN q
       ELSE IF 2 * r > d THEN q + 1
       ELSE IF q % 2 = 0 THEN q ELSE q + 1

\* the decimal places of a symbol's quantity (simple_manager.rs 16-20)
QuantityPrecision(symbol) ==
    IF symbol \in {"BTCUSDT", "ETHUSDT"} THEN 3 ELSE 2

\* 10^(6 - precision): the symbol's quantity step in quantity-grid units
QuantityStep(symbol) == IF QuantityPrecision(symbol) = 3 THEN 1000 ELSE 10000

\* round_quantity_to_precision: (quantity * scale).round() / scale
round_quantity_to_precision(symbol, quantity) ==
    RoundHalfEven(quantity, QuantityStep(symbol)) * QuantityStep(symbol)

\* dec!(0.0001) in quantity-grid units
MinOrderSize == 100

\* PositionSide::from_order_side
from_order_side(order_side) == IF order_side = "Buy" THEN "Long" ELSE "Short"

Ok(v) == [ok |-> TRUE, value |-> v]
Err(e) == [ok |-> FALSE, error |-> e]

\* portfolio_state.positions.iter().find(|p| p.symbol == symbol); the positions
\* of a PortfolioState are the values of the portfolio's map, one per symbol
FindPosition(portfolio_state, symbol) ==
    IF symbol \in DOMAIN portfolio_state.positions
    THEN Some(portfolio_state.positions[symbol])
    ELSE None

\* section 2 of evaluate_signal with the quantity of the signal's own order kept
CloseOrderKeepQuantity(order_request, position) ==
    LET side == opposite(position.side)
    IN [order_request EXCEPT !.side = side,
                             !.position_side = Some(from_order_side(side))]

\* section 2 of evaluate_signal (lines 78-82): the order closing the whole position
CloseOrder(order_request, position) ==
    LET side == opposite(position.side)
    IN [order_request EXCEPT !.quantity = position.quantity,
                             !.side = side,
                             !.position_side = Some(from_order_side(side))]

\* sections 4-6 of evaluate_signal (lines 100-176): sizing, minimum size,
\* same-side delta and precision rounding
SizedOrder(params, signal, portfolio_state, entry_price, current_position) ==
    LET \* risk_per_trade_pct * confidence / stop_loss_pct as a fraction in lowest terms
        f_num == params.risk_per_trade_pct.num * signal.confidence.num
                    * params.stop_loss_pct.den
        f_den == params.risk_per_trade_pct.den * signal.confidence.den
                    * params.stop_loss_pct.num
        g == GCD(f_num, f_den)
        \* position_value = total_value * risk * confidence / stop_loss_pct
        pv_num == portfolio_state.total_value * (f_num \div g)
        pv_den == f_den \div g
        \* max_position_value = cash * 0.95
        max_num == portfolio_state.cash * 19
        max_den == 20
        use_max == max_num * pv_den < pv_num * max_den
        num == IF use_max THEN max_num ELSE pv_num
        den == IF use_max THEN max_den ELSE pv_den
        \* target_quantity = (position_value / entry_price).round_dp(6)
        target_quantity == IF num <= 0 THEN 0 ELSE RoundHalfEven(num, den * entry_price)
        quantity == IF current_position.some
                    THEN target_quantity - current_position.value.quantity
                    ELSE target_quantity
        rounded_quantity == round_quantity_to_precision(signal.order_request.symbol, quantity)
    IN IF target_quantity < MinOrderSize
       THEN Err("Calculation")
       ELSE IF current_position.some /\ ~(target_quantity > current_position.value.quantity)
       THEN Err("Calculation")
       ELSE Ok([signal.order_request EXCEPT
                   !.quantity = rounded_quantity,
                   !.position_side = Some(from_order_side(signal.order_request.side))])

\* SimpleRiskManager::evaluate_signal
evaluate_signal(params, signal, portfolio_state, entry_price) ==
    LET current_position == FindPosition(portfolio_state, signal.order_request.symbol)
        \* |entry_price - stop_loss_price| = entry_price * stop_loss_pct, times den
        stop_loss_distance == entry_price * params.stop_loss_pct.num
    IN IF entry_price <= 0 THEN Err("InvalidEntryPrice")
       ELSE IF portfolio_state.total_value <= 0 THEN Err("InsufficientEquity")
       ELSE IF current_position.some /\ current_position.value.side /= signal.order_request.side
       THEN Ok(CloseOrder(signal.order_request, current_position.value))
       ELSE IF stop_loss_distance = 0 THEN Err("Calculation")
       ELSE SizedOrder(params, signal, portfolio_state, entry_price, current_position)

-----------------------------------------------------------------------------
(* executor::SimulatedExecutor                                             *)

\* SimulatedExecutor::calculate_slippage_price
calculate_slippage_price(sim, order_side, kline) ==
    LET bar_range == kline.high - kline.low
        slippage_amount == (bar_range * sim.slippage_pct.num) \div sim.slippage_pct.den
    IN IF bar_range = 0 THEN kline.close
       ELSE IF order_side = "Buy" THEN kline.close + slippage_amount
       ELSE kline.close - slippage_amount

\* line 121: the fill price of SimulatedExecutor::execute; order.price is not read
FillPrice(sim, order, kline) == calculate_slippage_price(sim, order.side, kline)

\* lines 129-139: the Execution receipt; its timestamp is Utc::now()
ExecutionReceipt(order, kline, price, fee, now) ==
    [symbol |-> order.symbol, side |-> order.side, price |-> price,
     quantity |-> order.quantity, fee |-> fee, timestamp |-> now]

\* SimulatedExecutor::execute; now is the wall-clock reading of Utc::now()
execute(sim, order, kline, now) ==
    LET execution_price == FillPrice(sim, order, kline)
        fee == (execution_price * order.quantity * sim.taker_fee_pct.num)
                  \div sim.taker_fee_pct.den
    IN ExecutionReceipt(order, kline, execution_price, fee, now)

-----------------------------------------------------------------------------
(* backtester::Backtester                                                  *)
(*                                                                         *)
(* A run is a record of the locals and fields of Backtester::run.  The      *)
(* tracked stop-loss price is entry_price * (1 -/+ stop_loss_pct); it is    *)
(* kept multiplied by the denominator of stop_loss_pct so that it is exact. *)

\* the symbol the Backtester was constructed for
BtSymbol == "BTCUSDT"

\* config.risk_management of the run
BtRisk == [risk_per_trade_pct |-> Pct(1, 20), stop_loss_pct |-> Pct(1, 10)]

\* config.simulation of the run
BtSim == [taker_fee_pct |-> Pct(1, 100), slippage_pct |-> Pct(1, 2)]

\* the initial capital of the run's Portfolio
BtInitialCapital == 600000

\* the bars a run can meet: [low, high, close]
KlineShapes ==
    {[low |-> 10, high |-> 10, close |-> 10],
     [low |-> 9, high |-> 11, close |-> 10],
     [low |-> 8, high |-> 8, close |-> 8],
     [low |-> 12, high |-> 12, close |-> 12],
     [low |-> 40, high |-> 40, close |-> 40]}

\* what Strategy::evaluate returns on a bar: Err, Ok(None) or Ok(Some(signal))
StrategyOutputs ==
    {[kind |-> "Err"], [kind |-> "None"]} \cup
    {[kind |-> "Signal",
      signal |-> [confidence |-> Pct(1, 1),
                  order_request |-> [symbol |-> BtSymbol, side |-> d, quantity |-> 0,
                                     price |-> None, position_side |-> None]]] :
        d \in Sides}

\* the state of a Backtester before run is called
BacktesterNew ==
    [status |-> "created",
     error |-> "none",
     n_klines |-> 0,
     bar |-> 0,
     portfolio |-> PortfolioNew(BtInitialCapital),
     pending_entry |-> None,
     stop_loss_price |-> None,
     completed_trades |-> <<>>,
     equity_curve |-> <<>>,
     initial_capital |-> None,
     report |-> None,
     clock |-> 0,
     last_bar |-> [stop_hit |-> FALSE, evaluated |-> FALSE, risk |-> None]]

\* lines 93-96: whether the bar breaches the tracked stop of the position
should_stop(position, sl_price, kline) ==
    IF position.side = "Buy"
    THEN kline.low * BtRisk.stop_loss_pct.den <= sl_price
    ELSE kline.high * BtRisk.stop_loss_pct.den >= sl_price

\* lines 166-170: the stop-loss price of a freshly opened position
StopLossFor(pos_after) ==
    IF pos_after.side = "Buy"
    THEN pos_after.entry_price * (BtRisk.stop_loss_pct.den - BtRisk.stop_loss_pct.num)
    ELSE pos_after.entry_price * (BtRisk.stop_loss_pct.den + BtRisk.stop_loss_pct.num)

\* lines 188-190: one point of the equity curve
EquityPoint(p, kline) ==
    <<kline.close_time,
      calculate_total_equity(p, [s \in {BtSymbol} |-> kline.close])>>

\* the run ends with an error
BtFail(b, error) == [b EXCEPT !.status = "error", !.error = error]

\* the position closed but the stored entry is read without being taken
MatchTradeKeepsEntry(b, execution) ==
    [b EXCEPT !.completed_trades =
                  IF b.pending_entry.some
                  THEN Append(@, [entry_execution |-> b.pending_entry.value,
                                  exit_execution |-> execution])
                  ELSE @,
              !.stop_loss_price = None]

\* lines 119-128 and 173-183: the position closed; pending_entry.take() is
\* paired with the closing execution and the stop-loss is cleared
MatchTrade(b, execution) ==
    [b EXCEPT !.completed_trades =
                  IF b.pending_entry.some
                  THEN Append(@, [entry_execution |-> b.pending_entry.value,
                                  exit_execution |-> execution])
                  ELSE @,
              !.pending_entry = None,
              !.stop_loss_price = None]

\* lines 98-130: the stop-loss branch of one bar
StopOut(b, position, sl_price, kline, now) ==
    LET order_request == [symbol |-> BtSymbol,
                          side |-> opposite(position.side),
                          quantity |-> position.quantity,
                          price |-> Some(sl_price),
                          position_side |-> None]
        execution == execute(BtSim, order_request, kline, now)
        r == update_with_execution(b.portfolio, execution)
        hist == [stop_hit |-> TRUE, evaluated |-> FALSE, risk |-> None, kline |-> kline,
                 position_before |-> Some(position), stop_before |-> sl_price,
                 pending_before |-> b.pending_entry,
                 trades_before |-> Len(b.completed_trades),
                 exit |-> execution]
        b1 == [b EXCEPT !.portfolio = r.portfolio, !.last_bar = hist, !.clock = now]
    IN IF r.result /= "Ok"
       THEN BtFail(b1, r.result)
       ELSE MatchTrade(b1, execution)

\* lines 141-185: a signal goes through risk, execution, the portfolio and
\* trade matching
ProcessSignal(b, signal, kline, now, hist) ==
    LET position_before == get_position(b.portfolio, BtSymbol)
        total_equity == calculate_total_equity(b.portfolio,
                                               [s \in {BtSymbol} |-> kline.close])
        risk == evaluate_signal(BtRisk, signal,
                                [cash |-> b.portfolio.cash,
                                 total_value |-> total_equity,
                                 positions |-> b.portfolio.positions],
                                kline.close)
        execution == execute(BtSim, risk.value, kline, now)
        r == update_with_execution(b.portfolio, execution)
        position_after == get_position(r.portfolio, BtSymbol)
        b1 == [b EXCEPT !.last_bar = [hist EXCEPT !.risk = Some(risk)]]
        b2 == [b1 EXCEPT !.portfolio = r.portfolio, !.clock = now]
    IN IF ~risk.ok THEN BtFail(b1, risk.error)
       ELSE IF r.result /= "Ok" THEN BtFail(b2, r.result)
       ELSE IF ~position_before.some /\ position_after.some
       THEN [b2 EXCEPT !.pending_entry = Some(execution),
                       !.stop_loss_price = Some(StopLossFor(position_after.value))]
       ELSE IF position_before.some /\ ~position_after.some
       THEN MatchTrade(b2, execution)
       ELSE b2

\* lines 86-192: the body of the bar loop for one kline; output is what the
\* strategy returns if it is evaluated on this kline, now the wall-clock time
BarStep(b, kline, output, now) ==
    LET position == get_position(b.portfolio, BtSymbol)
        stop_hit == /\ position.some
                    /\ b.stop_loss_price.some
                    /\ should_stop(position.value, b.stop_loss_price.value, kline)
        \* lines 132-135: no position, no stop
        b0 == [b EXCEPT !.bar = @ + 1,
                        !.stop_loss_price = IF position.some THEN @ ELSE None]
        hist == [stop_hit |-> FALSE, evaluated |-> TRUE, kline |-> kline,
                 output |-> output, risk |-> None,
                 position_before |-> position]
        b1 == [b0 EXCEPT !.last_bar = hist]
        b2 == IF output.kind = "Signal"
              THEN ProcessSignal(b1, output.signal, kline, now, hist)
              ELSE b1
    IN IF stop_hit
       THEN StopOut(b0, position.value, b.stop_loss_price.value, kline, now)
       ELSE IF output.kind = "Err" THEN BtFail(b1, "Strategy")
       ELSE IF b2.status = "error" THEN b2
       ELSE [b2 EXCEPT !.equity_curve = Append(@, EquityPoint(b2.portfolio, kline))]

-----------------------------------------------------------------------------
(* SpecRisk: evaluate_signal applied once to arbitrary arguments            *)

RiskPcts == {Pct(1, 100), Pct(1, 20)}
StopLossPcts == {Pct(1, 50), Pct(1, 10)}
Confidences == {Pct(1, 2), Pct(1, 1)}
SignalQuantities == {0, 1000}
RiskCash == {0, 300000, 600000}
RiskEquities == {0, 500000, 600000}
RiskEntryPrices == {0, 10, 12}
HeldQuantities == {20000, 2 * QtyOne}

\* RiskManagement {risk_per_trade_pct, stop_loss_pct}
RiskManagement == [risk_per_trade_pct : RiskPcts, stop_loss_pct : StopLossPcts]

\* OrderRequest as a strategy fills it in: a market order without price or
\* position side
OrderRequests ==
    {[symbol |-> s, side |-> d, quantity |-> q, price |-> None, position_side |-> None] :
        s \in Symbols, d \in Sides, q \in SignalQuantities}

Signals == [confidence : Confidences, order_request : OrderRequests]

HeldPositions == [side : Sides, quantity : HeldQuantities, entry_price : {10}]

\* the position maps a PortfolioState can list
PositionMaps == UNION {[D -> HeldPositions] : D \in SUBSET Symbols}

PortfolioStates == [cash : RiskCash, total_value : RiskEquities, positions : PositionMaps]

\* no portfolio under test
PortfolioIdle ==
    /\ portfolio = PortfolioNew(0)
    /\ ledger = LedgerNew(0)
    /\ last_call = NoCall
    /\ event_tx = <<>>
    /\ ops = 0
    /\ snapshots = 0

InitRisk ==
    /\ PortfolioIdle
    /\ BtIdle
    /\ EngIdle
    /\ IoIdle
    /\ \E params \in RiskManagement, signal \in Signals,
          portfolio_state \in PortfolioStates, entry_price \in RiskEntryPrices :
          risk_call = [state |-> "called", params |-> params, signal |-> signal,
                       portfolio_state |-> portfolio_state, entry_price |-> entry_price]

\* the call returns
EvaluateSignal ==
    /\ risk_call.state = "called"
    /\ risk_call' = [state |-> "returned",
                     params |-> risk_call.params,
                     signal |-> risk_call.signal,
                     portfolio_state |-> risk_call.portfolio_state,
                     entry_price |-> risk_call.entry_price,
                     result |-> evaluate_signal(risk_call.params, risk_call.signal,
                                                risk_call.portfolio_state,
                                                risk_call.entry_price)]
    /\ UNCHANGED <<pf_vars, bt_vars, eng_vars, io_vars>>

NextRisk == EvaluateSignal

SpecRisk == InitRisk /\ [][NextRisk]_vars

\* the position the call's portfolio state holds on the signal's symbol
RiskCallPosition ==
    FindPosition(risk_call.portfolio_state, risk_call.signal.order_request.symbol)

\* the call's arguments are those of C6: a positive price, positive equity and
\* a position opposite to the signal
RiskCallOpposes ==
    /\ risk_call.entry_price > 0
    /\ risk_call.portfolio_state.total_value > 0
    /\ RiskCallPosition.some
    /\ RiskCallPosition.value.side /= risk_call.signal.order_request.side

\* C6: with entry price > 0, equity > 0 and a position opposite to the signal,
\* evaluate_signal returns an order for the full position quantity, on the side
\* opposite to the position, with the position side set, whatever the equity,
\* cash, confidence and risk parameters are.
OppositeSignalClosesFullPosition ==
    (risk_call.state = "returned" /\ RiskCallOpposes) =>
        /\ risk_call.result.ok
        /\ risk_call.result.value.quantity = RiskCallPosition.value.quantity
        /\ risk_call.result.value.side = opposite(RiskCallPosition.value.side)
        /\ risk_call.result.value.position_side.some
        /\ risk_call.result.value.symbol = risk_call.signal.order_request.symbol

\* a full close of 2 units was returned although cash is zero and sizing would
\* have given far less
OppositeSignalClosesFullPositionWitness ==
    /\ risk_call.state = "returned"
    /\ RiskCallOpposes
    /\ risk_call.portfolio_state.cash = 0
    /\ RiskCallPosition.value.quantity = 2 * QtyOne
    /\ risk_call.result.ok
    /\ risk_call.result.value.quantity = 2 * QtyOne

-----------------------------------------------------------------------------
(* analytics::AnalyticsEngine                                              *)
(*                                                                         *)
(* The report keeps the fields computed by sums, counts and maxima; the     *)
(* ratio fields are quotients of these and of the equity curve.             *)

\* PerformanceReport::new
ReportNew ==
    [total_net_profit |-> 0, gross_profit |-> 0, gross_loss |-> 0,
     total_trades |-> 0, winning_trades |-> 0, losing_trades |-> 0,
     max_drawdown |-> 0, average_holding_period |-> 0]

\* lines 89-98: the profit of one trade
TradePnl(trade) ==
    IF trade.entry_execution.side = "Buy"
    THEN (trade.exit_execution.price - trade.entry_execution.price)
            * trade.exit_execution.quantity
    ELSE (trade.entry_execution.price - trade.exit_execution.price)
            * trade.exit_execution.quantity

\* Iterator::sum over a sequence of amounts
RECURSIVE SumSeq(_)
SumSeq(seq) == IF seq = <<>> THEN 0 ELSE Head(seq) + SumSeq(Tail(seq))

\* AnalyticsEngine::calculate_drawdown: the largest fall below the running peak
RECURSIVE MaxDrawdown(_, _, _)
MaxDrawdown(curve, peak, max_dd) ==
    IF curve = <<>> THEN max_dd
    ELSE LET equity == Head(curve)[2]
             peak1 == IF equity > peak THEN equity ELSE peak
             dd == peak1 - equity
         IN MaxDrawdown(Tail(curve), peak1, IF dd > max_dd THEN dd ELSE max_dd)

\* line 227: the holding time of a trade in seconds
HoldingSecs(trade) == trade.exit_execution.timestamp - trade.entry_execution.timestamp

\* AnalyticsEngine::calculate
calculate(trades, equity_curve, initial_capital) ==
    IF trades = <<>> \/ Len(equity_curve) < 2
    THEN ReportNew
    ELSE LET Win(t) == IF is_sign_positive(TradePnl(t)) THEN TradePnl(t) ELSE 0
             Loss(t) == IF is_sign_positive(TradePnl(t)) THEN 0 ELSE Abs(TradePnl(t))
             IsWin(t) == IF is_sign_positive(TradePnl(t)) THEN 1 ELSE 0
             Map(F(_)) == [i \in 1..Len(trades) |-> F(trades[i])]
         IN [total_net_profit |-> SumSeq(Map(TradePnl)),
             gross_profit |-> SumSeq(Map(Win)),
             gross_loss |-> SumSeq(Map(Loss)),
             total_trades |-> Len(trades),
             winning_trades |-> SumSeq(Map(IsWin)),
             losing_trades |-> Len(trades) - SumSeq(Map(IsWin)),
             max_drawdown |-> MaxDrawdown(equity_curve, equity_curve[1][2], 0),
             average_holding_period |-> SumSeq(Map(HoldingSecs)) \div Len(trades)]

-----------------------------------------------------------------------------
(* SpecBacktest and SpecTwoRuns: Backtester::run                            *)

\* klines of one run
MaxBars == 3

\* line 197: the initial capital handed to analytics
InitialCapitalArg(p) ==
    LET EntryValue(s) == p.positions[s].entry_price * p.positions[s].quantity
        RECURSIVE Sum(_)
        Sum(S) == IF S = {} THEN 0
                  ELSE LET s == CHOOSE x \in S : TRUE IN EntryValue(s) + Sum(S \ {s})
    IN p.cash + Sum(DOMAIN p.positions)

\* lines 70-71: run fetches n klines; none is an error
RunStart(b, n) ==
    IF n = 0 THEN BtFail([b EXCEPT !.status = "running"], "DataUnavailable")
    ELSE [b EXCEPT !.status = "running", !.n_klines = n]

\* lines 194-212: the report is computed and everything is saved
RunFinish(b, db_ok) ==
    LET initial_capital == InitialCapitalArg(b.portfolio)
        report == calculate(b.completed_trades, b.equity_curve, initial_capital)
        b1 == [b EXCEPT !.initial_capital = Some(initial_capital)]
    IN IF db_ok
       THEN [b1 EXCEPT !.status = "done", !.report = Some(report)]
       ELSE BtFail(b1, "Database")

\* the kline of bar i: klines come in time order, the close time is the bar's index
KlineAt(shape, i) ==
    [low |-> shape.low, high |-> shape.high, close |-> shape.close, close_time |-> i]

InitBacktest ==
    /\ PortfolioIdle
    /\ RiskIdle
    /\ EngIdle
    /\ IoIdle
    /\ bt = BacktesterNew
    /\ bt2 = [status |-> "idle"]

\* run is called and loads its klines
BtStart ==
    /\ bt.status = "created"
    /\ \E n \in 0..MaxBars : bt' = RunStart(bt, n)
    /\ UNCHANGED <<pf_vars, risk_vars, bt2, eng_vars, io_vars>>

\* one iteration of the bar loop
BtBar ==
    /\ bt.status = "running"
    /\ bt.bar < bt.n_klines
    /\ \E shape \in KlineShapes, output \in StrategyOutputs, now \in {bt.clock, bt.clock + 1} :
          bt' = BarStep(bt, KlineAt(shape, bt.bar + 1), output, now)
    /\ UNCHANGED <<pf_vars, risk_vars, bt2, eng_vars, io_vars>>

\* the loop is over: report and persistence
BtFinish ==
    /\ bt.status = "running"
    /\ bt.bar = bt.n_klines
    /\ \E db_ok \in BOOLEAN : bt' = RunFinish(bt, db_ok)
    /\ UNCHANGED <<pf_vars, risk_vars, bt2, eng_vars, io_vars>>

NextBacktest ==
    \/ BtStart
    \/ BtBar
    \/ BtFinish

SpecBacktest == InitBacktest /\ [][NextBacktest]_vars

InitTwoRuns ==
    /\ PortfolioIdle
    /\ RiskIdle
    /\ EngIdle
    /\ IoIdle
    /\ bt = BacktesterNew
    /\ bt2 = BacktesterNew

\* both runs are called with the same date range and load the same klines
TwoStart ==
    /\ bt.status = "created"
    /\ \E n \in 0..MaxBars :
          /\ bt' = RunStart(bt, n)
          /\ bt2' = RunStart(bt2, n)
    /\ UNCHANGED <<pf_vars, risk_vars, eng_vars, io_vars>>

\* both runs process the same kline with the same strategy output; each reads
\* its own wall clock
TwoBar ==
    /\ bt.status = "running"
    /\ bt2.status = "running"
    /\ bt.bar < bt.n_klines
    /\ \E shape \in KlineShapes, output \in StrategyOutputs,
          now \in {bt.clock, bt.clock + 1}, now2 \in {bt2.clock, bt2.clock + 1} :
          /\ bt' = BarStep(bt, KlineAt(shape, bt.bar + 1), output, now)
          /\ bt2' = BarStep(bt2, KlineAt(shape, bt2.bar + 1), output, now2)
    /\ UNCHANGED <<pf_vars, risk_vars, eng_vars, io_vars>>

\* both runs report and save
TwoFinish ==
    /\ bt.status = "running"
    /\ bt2.status = "running"
    /\ bt.bar = bt.n_klines
    /\ bt' = RunFinish(bt, TRUE)
    /\ bt2' = RunFinish(bt2, TRUE)
    /\ UNCHANGED <<pf_vars, risk_vars, eng_vars, io_vars>>

NextTwoRuns ==
    \/ TwoStart
    \/ TwoBar
    \/ TwoFinish

SpecTwoRuns == InitTwoRuns /\ [][NextTwoRuns]_vars

-----------------------------------------------------------------------------
(* SpecEngine: LiveEngine::run, its stream tasks and the StateReconciler    *)
(*                                                                         *)
(* Each task advances from one await to the next in one step.  The Mutex   *)
(* of the portfolio is acquired in a step of its own.  Only the Warn and   *)
(* Error messages of the log are kept.                                     *)

\* events the stream tasks send in total
MaxEvents == 2
\* passes of the reconciler
MaxPasses == 1

\* line 258: mpsc::channel(1024)
ChannelCapacity == 1024

\* the one enabled bot of live.toml
BotSymbol == "BTCUSDT"

\* base_config.risk_management of the engine's risk manager
LiveRisk == [risk_per_trade_pct |-> Pct(1, 20), stop_loss_pct |-> Pct(1, 10)]

\* base_config.backtest.initial_capital
LiveInitialCapital == 600000

\* closes of the klines received, and the average price an order can fill at
LiveCloses == {10}
LiveFillPrices == {10, 40}

\* the stream tasks spawned by run: lines 265, 270, 271
StreamTasks == {"kline", "book_ticker", "mark_price"}

\* LiveEvent as the task of stream s builds it: lines 319, 327, 335
LiveEvents(s) ==
    IF s = "kline"
    THEN {[type |-> "Kline", symbol |-> BotSymbol,
           kline |-> [low |-> c, high |-> c, close |-> c, close_time |-> 0]] : c \in LiveCloses}
    ELSE IF s = "book_ticker" THEN {[type |-> "BookTicker", symbol |-> BotSymbol]}
    ELSE {[type |-> "MarkPrice", symbol |-> BotSymbol]}

\* what the exchange can answer to get_account_balance and get_open_positions
LiveBalanceResults ==
    {[ok |-> FALSE],
     [ok |-> TRUE, value |-> <<[asset |-> "USDT", available_balance |-> LiveInitialCapital]>>]}
LivePositionResults ==
    {[ok |-> FALSE],
     [ok |-> TRUE, value |-> <<>>],
     [ok |-> TRUE, value |-> <<[symbol |-> BotSymbol, position_amt |-> 60000, entry_price |-> 10]>>]}

\* what the strategy of the bot returns on a kline
LiveStrategyOutputs ==
    {[kind |-> "Err"], [kind |-> "None"]} \cup
    {[kind |-> "Signal",
      signal |-> [confidence |-> Pct(1, 1),
                  order_request |-> [symbol |-> BotSymbol, side |-> d, quantity |-> 0,
                                     price |-> None, position_side |-> None]]] :
        d \in Sides}

\* LiveExecutor::execute: Err if place_order fails, else the receipt built from
\* the order response (fee "0", executed quantity of a filled market order)
LiveExecutions(order) ==
    {[ok |-> FALSE]} \cup
    {[ok |-> TRUE,
      value |-> [symbol |-> order.symbol, side |-> order.side, price |-> avg_price,
                 quantity |-> order.quantity, fee |-> 0]] : avg_price \in LiveFillPrices}

\* LiveEngine::new; trail is history: what the engine has done with the
\* execution of the event in hand
EngineNew ==
    [pc |-> "init", event |-> None, signal |-> None, order_request |-> None,
     execution |-> None, snapshot |-> None,
     received |-> 0, handled |-> 0, failures |-> 0, failure |-> "none",
     trail |-> <<>>, age |-> "none"]

\* a LogMessage of level Warn or Error
LogMessage(task, level, error) == [task |-> task, level |-> level, error |-> error]

\* the messages logged by one task
LogsOf(task) == SelectSeq(logs, LAMBDA m : m.task = task)

\* the failures the engine logged while handling events
FailureLogs == SelectSeq(logs, LAMBDA m : m.task = "engine" /\ m.error /= "StreamEnded")

\* the senders of the fan-in channel that are alive: one clone per running
\* stream task and event_in_tx itself, a local of run that is never dropped
Senders ==
    {s \in StreamTasks : streams.status[s] = "open"} \cup {"run"}

\* handle_event is over for the event in hand
Handled(e) ==
    [e EXCEPT !.pc = "recv", !.handled = @ + 1, !.signal = None, !.order_request = None,
              !.execution = None, !.snapshot = None]

\* handle_event returns Err and run returns it too
RunOnErrReturns(e, error) ==
    [Handled(e) EXCEPT !.pc = "returned", !.failure = error, !.failures = @ + 1]

\* lines 284-286: handle_event returned Err(e); run logs it and loops
RunOnErr(e, error) ==
    [Handled(e) EXCEPT !.failure = error, !.failures = @ + 1]

\* lines 415-420, 450-452: process_kline_signal logs the failure itself and
\* returns Ok(())
SkipOnErr(e, error) ==
    [Handled(e) EXCEPT !.failure = error, !.failures = @ + 1]

eng_frame == <<ledger, last_call, ops, snapshots, risk_vars, bt_vars, io_vars>>

\* StateReconciler::new; limit is the number of timer ticks it will see, the
\* other counters are history
ReconcilerNew(limit) ==
    [pc |-> "unspawned", snapshot |-> None, passes |-> 0, failures |-> 0,
     last_failed |-> FALSE, limit |-> limit, age |-> "none"]

\* the state after LiveEngine::new; limit is the number of events the streams
\* will deliver, ticks the number of timer ticks of the reconciler
EngineStart(limit, ticks) ==
    /\ portfolio = PortfolioNew(LiveInitialCapital)
    /\ ledger = LedgerNew(0)
    /\ last_call = NoCall
    /\ event_tx = <<>>
    /\ ops = 0
    /\ snapshots = 0
    /\ RiskIdle
    /\ BtIdle
    /\ IoIdle
    /\ engine = EngineNew
    /\ reconciler = ReconcilerNew(ticks)
    /\ lock = "free"
    /\ event_in = <<>>
    /\ streams = [status |-> [s \in StreamTasks |-> "unspawned"], sent |-> 0,
                  limit |-> limit]
    /\ logs = <<>>

InitEngine == EngineStart(MaxEvents, MaxPasses)

\* lines 245-281: init syncs the portfolio and sets the leverage; run then
\* spawns the stream tasks and the reconciler.  A failure returns from run.
EngineInit ==
    /\ engine.pc = "init"
    /\ \E balances \in LiveBalanceResults, positions \in LivePositionResults,
          leverage_ok \in BOOLEAN :
          IF balances.ok /\ positions.ok /\ leverage_ok
          THEN LET p1 == SyncApply(portfolio, balances.value, positions.value)
               IN /\ portfolio' = p1
                  /\ event_tx' = Append(event_tx, PortfolioStateMsg(p1))
                  /\ streams' = [streams EXCEPT !.status = [s \in StreamTasks |-> "open"]]
                  /\ reconciler' = [reconciler EXCEPT !.pc = "tick"]
                  /\ engine' = [engine EXCEPT !.pc = "recv"]
          ELSE /\ engine' = [engine EXCEPT !.pc = "failed"]
               /\ UNCHANGED <<portfolio, event_tx, streams, reconciler>>
    /\ UNCHANGED <<lock, event_in, logs, eng_frame>>

\* lines 316-338: a stream task forwards one item of its stream
StreamSend(s) ==
    /\ streams.status[s] = "open"
    /\ streams.sent < streams.limit
    /\ Len(event_in) < ChannelCapacity
    /\ \E event \in LiveEvents(s) : event_in' = Append(event_in, event)
    /\ streams' = [streams EXCEPT !.sent = @ + 1]
    /\ UNCHANGED <<pf_vars, engine, reconciler, lock, logs, eng_frame>>

\* lines 318, 326, 334: the stream of the task ends and the task with it
StreamEnd(s) ==
    /\ streams.status[s] = "open"
    /\ streams' = [streams EXCEPT !.status[s] = "closed"]
    /\ UNCHANGED <<pf_vars, engine, reconciler, lock, event_in, logs, eng_frame>>

\* lines 283, 294-313, 370-377: recv yields the next event, or None when the
\* channel is empty and no sender is left; a kline goes to the strategy
EngineRecv ==
    /\ engine.pc = "recv"
    /\ IF event_in /= <<>>
       THEN LET event == Head(event_in)
                e0 == [engine EXCEPT !.event = Some(event), !.received = @ + 1,
                                     !.failure = "none", !.trail = <<>>]
            IN /\ event_in' = Tail(event_in)
               /\ IF event.type = "Kline"
                  THEN \E output \in LiveStrategyOutputs :
                          CASE output.kind = "Err" ->
                                  /\ engine' = RunOnErr(e0, "Strategy")
                                  /\ logs' = Append(logs, LogMessage("engine", "Error", "Strategy"))
                            [] output.kind = "None" ->
                                  /\ engine' = Handled(e0)
                                  /\ UNCHANGED logs
                            [] output.kind = "Signal" ->
                                  /\ engine' = [e0 EXCEPT !.pc = "risk",
                                                          !.signal = Some(output.signal)]
                                  /\ UNCHANGED logs
                  ELSE /\ engine' = Handled(e0)
                       /\ UNCHANGED logs
       ELSE /\ Senders = {}
            /\ engine' = [engine EXCEPT !.pc = "returned"]
            /\ logs' = Append(logs, LogMessage("engine", "Error", "StreamEnded"))
            /\ UNCHANGED event_in
    /\ UNCHANGED <<pf_vars, reconciler, lock, streams, eng_frame>>

\* the places where the engine awaits portfolio.lock(): lines 382, 439, 123, 166
EngineLockPoints == {"risk", "update", "broadcast", "sync_apply", "broadcast_synced"}

\* the guard is never dropped
UnlockNever == lock

\* the MutexGuard goes out of scope: lines 422, 441, 139, 212, reconciler.rs 132
Unlock == "free"

\* portfolio.lock().await is granted
EngineLock ==
    /\ engine.pc \in EngineLockPoints
    /\ lock = "free"
    /\ lock' = "engine"
    /\ UNCHANGED <<pf_vars, engine, reconciler, event_in, streams, logs, eng_frame>>

\* lines 380-422: the equity is computed and the risk manager sizes the order
\* under the lock; a rejection is logged and the signal skipped
EngineRisk ==
    /\ engine.pc = "risk"
    /\ lock = "engine"
    /\ lock' = Unlock
    /\ LET kline == engine.event.value.kline
           market_prices == [s \in DOMAIN portfolio.positions |->
                                IF s = BotSymbol THEN kline.close ELSE 0]
           portfolio_state == [cash |-> portfolio.cash,
                               total_value |-> calculate_total_equity(portfolio, market_prices),
                               positions |-> portfolio.positions]
           risk == evaluate_signal(LiveRisk, engine.signal.value, portfolio_state, kline.close)
       IN IF risk.ok
          THEN /\ engine' = [engine EXCEPT !.pc = "execute", !.order_request = Some(risk.value)]
               /\ UNCHANGED logs
          ELSE /\ engine' = SkipOnErr(engine, "Risk")
               /\ logs' = Append(logs, LogMessage("engine", "Warn", "Risk"))
    /\ UNCHANGED <<pf_vars, reconciler, event_in, streams, eng_frame>>

\* lines 433-436, 450-452: the executor answers; a failure is logged
EngineExecute ==
    /\ engine.pc = "execute"
    /\ \E result \in LiveExecutions(engine.order_request.value) :
          IF result.ok
          THEN /\ engine' = [engine EXCEPT !.pc = "update", !.execution = Some(result.value),
                                            !.trail = Append(@, "execution")]
               /\ UNCHANGED logs
          ELSE /\ engine' = SkipOnErr(engine, "Executor")
               /\ logs' = Append(logs, LogMessage("engine", "Error", "Executor"))
    /\ UNCHANGED <<pf_vars, reconciler, lock, event_in, streams, eng_frame>>

\* lines 438-441: the execution is applied under the lock; the guard is
\* dropped whether or not update_with_execution returns Ok
EngineUpdate ==
    /\ engine.pc = "update"
    /\ lock = "engine"
    /\ lock' = Unlock
    /\ LET r == update_with_execution(portfolio, engine.execution.value)
       IN /\ portfolio' = r.portfolio
          /\ IF r.result = "Ok"
             THEN /\ engine' = [engine EXCEPT !.pc = "broadcast",
                                               !.trail = Append(@, "apply")]
                  /\ UNCHANGED logs
             ELSE /\ engine' = RunOnErr(engine, "Portfolio")
                  /\ logs' = Append(logs, LogMessage("engine", "Error", "Portfolio"))
    /\ UNCHANGED <<event_tx, reconciler, event_in, streams, eng_frame>>

\* lines 443, 448 and 122-138: broadcast_portfolio_state
EngineBroadcast ==
    /\ engine.pc \in {"broadcast", "broadcast_synced"}
    /\ lock = "engine"
    /\ lock' = Unlock
    /\ event_tx' = Append(event_tx, PortfolioStateMsg(portfolio))
    /\ engine' = IF engine.pc = "broadcast"
                 THEN [engine EXCEPT !.pc = "sync_fetch", !.trail = Append(@, "broadcast")]
                 ELSE Handled([engine EXCEPT !.trail = Append(@, "broadcast")])
    /\ UNCHANGED <<portfolio, reconciler, event_in, streams, logs, eng_frame>>

\* lines 447, 161-162: sync_portfolio_state asks the exchange
\* the age of a fetched snapshot that waits to be written: "fresh" when it is
\* fetched, "older" once the other task has fetched after it, "stale" once the
\* other task has written what it fetched later
Overtaken(task) ==
    IF task.age = "fresh" THEN [task EXCEPT !.age = "older"] ELSE task

Outdated(task) ==
    IF task.age = "older" THEN [task EXCEPT !.age = "stale"] ELSE task

\* the age after the snapshot has been written
Written(age) == IF age = "stale" THEN "wrote_stale" ELSE "none"

EngineSyncFetch ==
    /\ engine.pc = "sync_fetch"
    /\ \E balances \in LiveBalanceResults, positions \in LivePositionResults :
          IF balances.ok /\ positions.ok
          THEN /\ engine' = [engine EXCEPT
                                !.pc = "sync_apply",
                                !.age = "fresh",
                                !.snapshot = Some([balances |-> balances.value,
                                                   positions |-> positions.value])]
               /\ reconciler' = Overtaken(reconciler)
               /\ UNCHANGED logs
          ELSE /\ engine' = RunOnErr(engine, "ApiClient")
               /\ logs' = Append(logs, LogMessage("engine", "Error", "ApiClient"))
               /\ UNCHANGED reconciler
    /\ UNCHANGED <<pf_vars, lock, event_in, streams, eng_frame>>

\* lines 166-211: sync_portfolio_state writes the snapshot under the lock
EngineSyncApply ==
    /\ engine.pc = "sync_apply"
    /\ lock = "engine"
    /\ lock' = Unlock
    /\ portfolio' = SyncApply(portfolio, engine.snapshot.value.balances,
                              engine.snapshot.value.positions)
    /\ engine' = [engine EXCEPT !.pc = "broadcast_synced", !.trail = Append(@, "sync"),
                                 !.age = Written(@)]
    /\ reconciler' = Outdated(reconciler)
    /\ UNCHANGED <<event_tx, event_in, streams, logs, eng_frame>>

\* run_reconciliation returned Err and start returns
StartOnErrExits(rec) ==
    [rec EXCEPT !.pc = "terminated", !.passes = @ + 1, !.failures = @ + 1,
                !.last_failed = TRUE]

\* reconciler.rs 145-147: run_reconciliation returned Err; start logs it and
\* goes round its loop to the next tick
StartOnErr(rec) ==
    [rec EXCEPT !.passes = @ + 1, !.failures = @ + 1, !.last_failed = TRUE]

\* reconciler.rs 142, 59-67: the timer ticks and the pass fetches the snapshot;
\* a failed request is logged by start and the task waits for the next tick
ReconcilerFetch ==
    /\ reconciler.pc = "tick"
    /\ reconciler.passes < reconciler.limit
    /\ \E balances \in LiveBalanceResults, positions \in LivePositionResults :
          IF balances.ok /\ positions.ok
          THEN /\ reconciler' = [reconciler EXCEPT
                                    !.pc = "lock",
                                    !.age = "fresh",
                                    !.snapshot = Some([balances |-> balances.value,
                                                       positions |-> positions.value])]
               /\ engine' = Overtaken(engine)
               /\ UNCHANGED logs
          ELSE /\ reconciler' = StartOnErr(reconciler)
               /\ logs' = Append(logs, LogMessage("reconciler", "Error", "ApiClient"))
               /\ UNCHANGED engine
    /\ UNCHANGED <<pf_vars, lock, event_in, streams, eng_frame>>

\* reconciler.rs 77: portfolio.lock().await is granted
ReconcilerLock ==
    /\ reconciler.pc = "lock"
    /\ lock = "free"
    /\ lock' = "reconciler"
    /\ reconciler' = [reconciler EXCEPT !.pc = "locked"]
    /\ UNCHANGED <<pf_vars, engine, event_in, streams, logs, eng_frame>>

\* reconciler.rs 79-131: the snapshot is written and broadcast under the lock
ReconcilerApply ==
    /\ reconciler.pc = "locked"
    /\ lock' = Unlock
    /\ LET p1 == ReconcileApply(portfolio, reconciler.snapshot.value.balances,
                                reconciler.snapshot.value.positions)
       IN /\ portfolio' = p1
          /\ event_tx' = Append(event_tx, PortfolioStateMsg(p1))
    /\ reconciler' = [reconciler EXCEPT !.pc = "tick", !.snapshot = None, !.passes = @ + 1,
                                         !.last_failed = FALSE, !.age = Written(@)]
    /\ engine' = Outdated(engine)
    /\ UNCHANGED <<event_in, streams, logs, eng_frame>>

EngineNext ==
    \/ EngineInit
    \/ EngineRecv
    \/ EngineLock
    \/ EngineRisk
    \/ EngineExecute
    \/ EngineUpdate
    \/ EngineBroadcast
    \/ EngineSyncFetch
    \/ EngineSyncApply

ReconcilerNext ==
    \/ ReconcilerFetch
    \/ ReconcilerLock
    \/ ReconcilerApply

NextEngine ==
    \/ EngineNext
    \/ ReconcilerNext
    \/ \E s \in StreamTasks : StreamSend(s)
    \/ \E s \in StreamTasks : StreamEnd(s)

SpecEngine == InitEngine /\ [][NextEngine]_vars

\* timer ticks of the reconciler in SpecReconciler
MaxTicks == 4

\* the portfolios the engine's init can leave
SyncedPortfolios ==
    {SyncApply(PortfolioNew(LiveInitialCapital), balances.value, positions.value) :
        balances \in {b \in LiveBalanceResults : b.ok},
        positions \in {p \in LivePositionResults : p.ok}}

\* the engine has started and waits for an event that does not come; the
\* reconciler has just been spawned
InitReconciler ==
    /\ portfolio \in SyncedPortfolios
    /\ ledger = LedgerNew(0)
    /\ last_call = NoCall
    /\ event_tx = <<PortfolioStateMsg(portfolio)>>
    /\ ops = 0
    /\ snapshots = 0
    /\ RiskIdle
    /\ BtIdle
    /\ IoIdle
    /\ engine = [EngineNew EXCEPT !.pc = "recv"]
    /\ reconciler = [ReconcilerNew(MaxTicks) EXCEPT !.pc = "tick"]
    /\ lock = "free"
    /\ event_in = <<>>
    /\ streams = [status |-> [s \in StreamTasks |-> "open"], sent |-> 0, limit |-> 0]
    /\ logs = <<>>

\* SpecReconciler: the reconciler task on its own; its timer keeps ticking
SpecReconciler ==
    /\ InitReconciler
    /\ [][ReconcilerNext]_vars
    /\ WF_vars(ReconcilerNext)

\* events the stream tasks send in total in SpecEngineFair
MaxFairEvents == 1

InitEngineFair == EngineStart(MaxFairEvents, MaxPasses)

\* SpecEngineFair: the same tasks under the scheduling the runtime gives them.
\* A task that can advance is polled again, requests to the exchange and to
\* the executor return, and the tokio Mutex is fair: it grants the lock in the
\* order it was asked for, so a waiting task is not overtaken forever.
SpecEngineFair ==
    /\ InitEngineFair
    /\ [][NextEngine]_vars
    /\ WF_vars(EngineNext)
    /\ WF_vars(ReconcilerNext)
    /\ SF_vars(EngineLock)
    /\ SF_vars(ReconcilerLock)

-----------------------------------------------------------------------------
(* SpecConnector: the WebSocket tasks spawned by LiveConnector             *)
(*                                                                         *)
(* Each subscription spawns one task that connects, reads the stream and   *)
(* sends what it parses into its mpsc channel, whose receiver is held by   *)
(* the engine's handler task for that stream.                              *)

\* connection attempts of all tasks together
MaxConnects == 3
\* results of stream.next() delivered to all tasks together
MaxWsResults == 3

\* live_connector.rs 123, 159, 284: tokio::time::sleep(Duration::from_secs(5))
BackoffSecs == 5

\* what stream.next() yields on an open connection: a text message that
\* parses to an item to forward, any other message, a Close frame, an error,
\* or the end of the stream
WsResults == {"Item", "Skip", "Close", "Err", "None"}

\* the task of one subscription right after tokio::spawn; the counters are
\* history: connections made, items parsed and items sent
ConnectorTaskNew ==
    [pc |-> "connect", ws |-> "none", sleep |-> 0, rx |-> <<>>, rx_alive |-> TRUE,
     connections |-> 0, items |-> 0, sent |-> 0, drops |-> 0]

\* the task returns when a connection is lost
DisconnectedReturns(t) ==
    [t EXCEPT !.pc = "exited", !.ws = "none", !.drops = @ + 1]

\* lines 122-123, 158-159, 283-284: the connection is lost or could not be
\* made; the task logs it and sleeps for the backoff
Disconnected(t) ==
    [t EXCEPT !.pc = "backoff", !.ws = "none", !.sleep = BackoffSecs, !.drops = @ + 1]

\* tx.send(item).await: Ok while the receiver is alive
ItemSent(t) ==
    [t EXCEPT !.rx = Append(@, t.connections), !.items = @ + 1, !.sent = @ + 1]

\* lines 232-242: the kline task returns when its receiver is gone;
\* lines 117, 153: the other tasks leave the read loop
SendFailed(s, t) ==
    IF s = "kline"
    THEN [t EXCEPT !.pc = "exited", !.ws = "none", !.items = @ + 1]
    ELSE [Disconnected(t) EXCEPT !.items = @ + 1]

\* one result of stream.next() as the task of stream s treats it.  The kline
\* task breaks on Close and Err; the other tasks match Ok(Text) only and read
\* on, and the stream, which has ended, yields None next.
OnWsResult(s, t, result) ==
    CASE result = "Item" -> IF t.rx_alive THEN ItemSent(t) ELSE SendFailed(s, t)
      [] result = "Skip" -> t
      [] result = "None" -> Disconnected(t)
      [] result \in {"Close", "Err"} ->
            IF s = "kline" THEN Disconnected(t) ELSE [t EXCEPT !.ws = "ended"]

InitConnector ==
    /\ PortfolioIdle
    /\ RiskIdle
    /\ BtIdle
    /\ EngIdle
    /\ SvcIdle
    /\ connector = [task |-> [s \in StreamTasks |-> ConnectorTaskNew],
                    connects |-> 0, results |-> 0]

\* connect_async(url).await returns
ConnectorConnect(s) ==
    /\ connector.task[s].pc = "connect"
    /\ connector.connects < MaxConnects
    /\ \E ok \in BOOLEAN :
          connector' = [connector EXCEPT
              !.connects = @ + 1,
              !.task[s] = IF ok
                          THEN [@ EXCEPT !.pc = "read", !.ws = "open",
                                         !.connections = @ + 1]
                          ELSE Disconnected(@)]
    /\ UNCHANGED <<pf_vars, risk_vars, bt_vars, eng_vars, svc_vars>>

\* stream.next().await returns
ConnectorRead(s) ==
    /\ connector.task[s].pc = "read"
    /\ connector.results < MaxWsResults
    /\ \E result \in IF connector.task[s].ws = "open" THEN WsResults ELSE {"None"} :
          connector' = [connector EXCEPT
              !.results = @ + 1,
              !.task[s] = OnWsResult(s, @, result)]
    /\ UNCHANGED <<pf_vars, risk_vars, bt_vars, eng_vars, svc_vars>>

\* the sleep of the backoff is over
ConnectorBackoffOver(s) ==
    /\ connector.task[s].pc = "backoff"
    /\ connector' = [connector EXCEPT !.task[s] = [@ EXCEPT !.pc = "connect", !.sleep = 0]]
    /\ UNCHANGED <<pf_vars, risk_vars, bt_vars, eng_vars, svc_vars>>

\* lib.rs 318, 326, 334: the engine's handler task receives an item
HandlerRecv(s) ==
    /\ connector.task[s].rx_alive
    /\ connector.task[s].rx /= <<>>
    /\ connector' = [connector EXCEPT !.task[s].rx = Tail(@)]
    /\ UNCHANGED <<pf_vars, risk_vars, bt_vars, eng_vars, svc_vars>>

\* lib.rs 319, 327, 335: the handler task ends because the engine is gone,
\* and drops the receiver
HandlerGone(s) ==
    /\ connector.task[s].rx_alive
    /\ connector' = [connector EXCEPT !.task[s].rx_alive = FALSE, !.task[s].rx = <<>>]
    /\ UNCHANGED <<pf_vars, risk_vars, bt_vars, eng_vars, svc_vars>>

NextConnector ==
    \/ \E s \in StreamTasks : ConnectorConnect(s)
    \/ \E s \in StreamTasks : ConnectorRead(s)
    \/ \E s \in StreamTasks : ConnectorBackoffOver(s)
    \/ \E s \in StreamTasks : HandlerRecv(s)
    \/ \E s \in StreamTasks : HandlerGone(s)

\* a sleeping task is woken when its timer fires
SpecConnector ==
    /\ InitConnector
    /\ [][NextConnector]_vars
    /\ \A s \in StreamTasks : WF_vars(ConnectorBackoffOver(s))

-----------------------------------------------------------------------------
(* The broadcast channel of WsMessages (SpecBus): handle_run creates it,    *)
(* the engine and the reconciler send on it, the cache updater of           *)
(* run_server, the alerter and each WebSocket connection receive from it    *)

MaxSends == 4
MaxSockets == 1
\* main.rs 202: broadcast::channel(1024), scaled down so that receivers lag
BusCapacity == 2

Producers == {"engine", "reconciler"}
Receivers == {"cache", "alerter", "socket"}
WsKinds == {"Log", "PortfolioState"}

\* event_tx.subscribe(): the receiver sees the messages sent from now on
ReceiverNew(next) ==
    [state |-> "open", start |-> next, next |-> next, received |-> 0,
     lagged |-> 0]

NoReceiver ==
    [state |-> "none", start |-> 0, next |-> 0, received |-> 0,
     lagged |-> 0]

OpenReceivers(b) == {r \in Receivers : b.rx[r].state = "open"}

\* the position of the oldest message the channel still holds
HeadPos(b) == b.tail - Len(b.buf) + 1

LastN(seq, n) ==
    IF Len(seq) <= n THEN seq ELSE SubSeq(seq, Len(seq) - n + 1, Len(seq))

\* broadcast::Sender::send: an error when no receiver exists, otherwise the
\* message is stored, overwriting the oldest one when the channel is full
SendResult(b) == IF OpenReceivers(b) = {} THEN "Err" ELSE "Ok"

BroadcastSend(b, msg) ==
    IF OpenReceivers(b) = {}
    THEN b
    ELSE [b EXCEPT !.buf = LastN(Append(@, msg), BusCapacity), !.tail = @ + 1]

\* the result of the send stops the producer
SendPropagated(prod, result) ==
    [prod EXCEPT !.pc = IF result = "Err" THEN "failed" ELSE @]

\* engine lib.rs 123, 138-140 and reconciler.rs 51, 128: `let _ = send(..)`,
\* `if send(..).is_err() {}`: the result of the send is dropped
SendIgnored(prod, result) ==
    prod

\* broadcast::Receiver::recv when a result is ready: Lagged(n) when the next
\* message was overwritten, the cursor then moves to the oldest one held
RecvResult(b, r) ==
    IF b.rx[r].next < HeadPos(b)
    THEN [kind |-> "Lagged", n |-> HeadPos(b) - b.rx[r].next,
          msg |-> [kind |-> "None", seq |-> 0]]
    ELSE [kind |-> "Ok", n |-> 0, msg |-> b.buf[b.rx[r].next - HeadPos(b) + 1]]

CanRecv(b, r) == b.rx[r].state = "open" /\ b.rx[r].next <= b.tail

AfterRecv(rx, res) ==
    IF res.kind = "Ok"
    THEN [rx EXCEPT !.next = @ + 1, !.received = @ + 1]
    ELSE [rx EXCEPT !.next = @ + res.n, !.lagged = @ + res.n]

bus_frame == <<pf_vars, risk_vars, bt_vars, eng_vars, connector, jobs, gen, wfo, call, pipe>>

\* main.rs 202-216: the channel is created, the alerter subscribes when
\* Telegram is configured, run_server subscribes its cache updater
InitBus ==
    /\ PortfolioIdle
    /\ RiskIdle
    /\ BtIdle
    /\ EngIdle
    /\ ConnectorIdle
    /\ JobsIdle
    /\ GenIdle
    /\ CallIdle
    /\ PipeIdle
    /\ WfoIdle
    /\ \E alerter_on \in BOOLEAN :
          bus = [buf |-> <<>>, tail |-> 0, attempts |-> 0,
                 limit |-> MaxSends, last_state |-> 0, cache |-> 0,
                 producer |-> [p \in Producers |-> [pc |-> "running"]],
                 rx |-> [r \in Receivers |->
                            IF r = "cache" \/ (r = "alerter" /\ alerter_on)
                            THEN ReceiverNew(1) ELSE NoReceiver],
                 client |-> <<>>, sockets |-> 0]

\* LiveEngine::log / broadcast_portfolio_state (lib.rs 108-142) and
\* StateReconciler::log / the state broadcast (reconciler.rs 50-56, 122-128)
ProducerSend(p, kind) ==
    /\ bus.attempts < bus.limit
    /\ bus.producer[p].pc = "running"
    /\ LET msg == [kind |-> kind, seq |-> bus.attempts + 1]
           b1 == BroadcastSend(bus, msg)
       IN bus' = [b1 EXCEPT !.attempts = @ + 1,
                            !.producer[p] = SendIgnored(@, SendResult(bus)),
                            !.last_state = IF kind = "PortfolioState"
                                           THEN msg.seq ELSE @]
    /\ UNCHANGED bus_frame

\* web-server lib.rs 50-56: `while let Ok(msg) = rx.recv().await`: a
\* PortfolioState replaces the cache, any Err ends the task
CacheUpdaterRecv ==
    /\ CanRecv(bus, "cache")
    /\ LET res == RecvResult(bus, "cache")
           rx1 == AfterRecv(bus.rx["cache"], res)
       IN IF res.kind = "Ok"
          THEN bus' = [bus EXCEPT !.rx["cache"] = rx1,
                                  !.cache = IF res.msg.kind = "PortfolioState"
                                            THEN res.msg.seq ELSE @]
          ELSE bus' = [bus EXCEPT !.rx["cache"] = [rx1 EXCEPT !.state = "dropped"]]
    /\ UNCHANGED bus_frame

\* alerter lib.rs 72-113: Ok is matched for an alert, Lagged(n) is logged
\* and the loop goes on
AlerterRecv ==
    /\ CanRecv(bus, "alerter")
    /\ bus' = [bus EXCEPT !.rx["alerter"] =
                    AfterRecv(@, RecvResult(bus, "alerter"))]
    /\ UNCHANGED bus_frame

\* handlers.rs 120-144: a client connects; the handler subscribes, sends
\* Connected and then the cached PortfolioState if there is one
HandleSocketConnect ==
    /\ bus.rx["socket"].state /= "open"
    /\ bus.sockets < MaxSockets
    /\ bus' = [bus EXCEPT
                 !.sockets = @ + 1,
                 !.rx["socket"] = ReceiverNew(bus.tail + 1),
                 !.client = <<[kind |-> "Connected", seq |-> 0]>> \o
                            (IF bus.cache /= 0
                             THEN <<[kind |-> "PortfolioState", seq |-> bus.cache]>>
                             ELSE <<>>)]
    /\ UNCHANGED bus_frame

\* handlers.rs 164-187: a broadcast message is forwarded to the client; an
\* Err of recv breaks the loop
HandleSocketRecv ==
    /\ CanRecv(bus, "socket")
    /\ LET res == RecvResult(bus, "socket")
           rx1 == AfterRecv(bus.rx["socket"], res)
       IN IF res.kind = "Ok"
          THEN bus' = [bus EXCEPT !.rx["socket"] = rx1]
          ELSE bus' = [bus EXCEPT !.rx["socket"] = [rx1 EXCEPT !.state = "dropped"]]
    /\ UNCHANGED bus_frame

\* handlers.rs 190-209: the client closes or goes away
HandleSocketClose ==
    /\ bus.rx["socket"].state = "open"
    /\ bus' = [bus EXCEPT !.rx["socket"].state = "dropped"]
    /\ UNCHANGED bus_frame

ProducerNext == \E p \in Producers, kind \in WsKinds : ProducerSend(p, kind)

NextBus ==
    \/ ProducerNext
    \/ CacheUpdaterRecv
    \/ AlerterRecv
    \/ HandleSocketConnect
    \/ HandleSocketRecv
    \/ HandleSocketClose

\* the producers and the two receiver tasks are tokio tasks that run whenever
\* they can; clients come and go as they like
SpecBus ==
    /\ InitBus
    /\ [][NextBus]_vars
    /\ WF_vars(ProducerNext)
    /\ WF_vars(CacheUpdaterRecv)
    /\ WF_vars(AlerterRecv)

-----------------------------------------------------------------------------
(* The workflows that create BacktestRun rows (SpecJobs): handle_single_run, *)
(* Optimizer::run with its workers, WfoEngine::run with execute_walk         *)

MaxRuns == 2
MaxWalks == 1

Workflows == {"single", "optimizer", "wfo"}
SimResults == {"Ok", "Err"}

\* db_repo.save_backtest_run(run_id, job_id, params, "Pending")
RunNew == [status |-> "Pending", sim |-> "none"]

\* the rows of the Optimizer job in hand
JobRuns == jobs.first..Len(jobs.runs)

\* optimizer lib.rs 148-157, main.rs 597-609: the status that the match on
\* the result of Backtester::run writes
StatusOf(result) == IF result = "Ok" THEN "Completed" ELSE "Failed"

jobs_frame == <<pf_vars, risk_vars, bt_vars, eng_vars, connector, bus, gen, wfo, call, pipe>>

InitJobs ==
    /\ PortfolioIdle
    /\ RiskIdle
    /\ BtIdle
    /\ EngIdle
    /\ ConnectorIdle
    /\ BusIdle
    /\ GenIdle
    /\ CallIdle
    /\ PipeIdle
    /\ WfoIdle
    /\ \E w \in Workflows :
          jobs = [workflow |-> w, pc |-> "init", runs |-> <<>>, first |-> 1,
                  walk |-> 0, result |-> "none"]

\* main.rs 553-561: the job and its one run are saved, the run as Pending
SingleCreate ==
    /\ jobs.workflow = "single"
    /\ jobs.pc = "init"
    /\ jobs' = [jobs EXCEPT !.pc = "setup", !.runs = Append(@, RunNew)]
    /\ UNCHANGED jobs_frame

\* main.rs 576-596: the risk manager and the strategy are built, `?`
\* returning on a failure, and Backtester::run is awaited
SingleSimulate ==
    /\ jobs.workflow = "single"
    /\ jobs.pc = "setup"
    /\ \/ jobs' = [jobs EXCEPT !.pc = "returned", !.result = "Err"]
       \/ \E result \in SimResults :
             jobs' = [jobs EXCEPT !.pc = "match", !.runs[1].sim = result]
    /\ UNCHANGED jobs_frame

\* main.rs 597-610: the match on the result updates the status
SingleMark ==
    /\ jobs.workflow = "single"
    /\ jobs.pc = "match"
    /\ jobs' = [jobs EXCEPT !.pc = "returned", !.result = "Ok",
                            !.runs[1].status = StatusOf(jobs.runs[1].sim)]
    /\ UNCHANGED jobs_frame

\* optimizer lib.rs 49-52, 98-115: initialize_job saves one Pending run per
\* parameter set; get_pending_runs reads them back
OptimizerInitialize ==
    /\ jobs.workflow \in {"optimizer", "wfo"}
    /\ jobs.pc = "init"
    /\ \E n \in 1..MaxRuns :
          jobs' = [jobs EXCEPT !.pc = "scope",
                               !.first = Len(jobs.runs) + 1,
                               !.runs = @ \o [i \in 1..n |-> RunNew]]
    /\ UNCHANGED jobs_frame

\* optimizer lib.rs 119-146: a worker builds the components of its run, `?`
\* returning on a failure, and awaits Backtester::run
WorkerSimulate(i) ==
    /\ jobs.pc = "scope"
    /\ i \in JobRuns
    /\ jobs.runs[i].sim = "none"
    /\ \E result \in SimResults \cup {"skipped"} :
          jobs' = [jobs EXCEPT !.runs[i].sim = result]
    /\ UNCHANGED jobs_frame

\* optimizer lib.rs 148-158: the worker's match on the result
WorkerMark(i) ==
    /\ jobs.pc = "scope"
    /\ i \in JobRuns
    /\ jobs.runs[i].sim \in SimResults
    /\ jobs.runs[i].status = "Pending"
    /\ jobs' = [jobs EXCEPT !.runs[i].status = StatusOf(jobs.runs[i].sim)]
    /\ UNCHANGED jobs_frame

\* optimizer lib.rs 75-95, wfo lib.rs 86-88: rayon::scope returns when every
\* worker is done; Optimizer::run returns Ok, to execute_walk in a WFO job
OptimizerReturn ==
    /\ jobs.pc = "scope"
    /\ \A i \in JobRuns :
          jobs.runs[i].sim = "skipped" \/ jobs.runs[i].status /= "Pending"
    /\ jobs' = IF jobs.workflow = "wfo"
               THEN [jobs EXCEPT !.pc = "analyze"]
               ELSE [jobs EXCEPT !.pc = "returned", !.result = "Ok"]
    /\ UNCHANGED jobs_frame

\* wfo lib.rs 90-112: the analyzer ranks the completed in-sample runs; with
\* none `?` returns NoBestParamsFound, else the out-of-sample run is saved
\* as Pending
WfoAnalyze ==
    /\ jobs.pc = "analyze"
    /\ IF \E i \in JobRuns : jobs.runs[i].status = "Completed"
       THEN jobs' = [jobs EXCEPT !.pc = "oos", !.runs = Append(@, RunNew)]
       ELSE jobs' = [jobs EXCEPT !.pc = "returned", !.result = "Err"]
    /\ UNCHANGED jobs_frame

\* wfo lib.rs 127-141, 69-77: `oos_backtester.run(..).await?` and then the
\* update to Completed; the next walk follows, or run returns
WfoOosRun ==
    /\ jobs.pc = "oos"
    /\ \E result \in SimResults :
          LET oos == Len(jobs.runs)
          IN IF result = "Ok"
             THEN jobs' = [jobs EXCEPT
                             !.runs[oos] = [status |-> "Completed", sim |-> "Ok"],
                             !.walk = @ + 1,
                             !.pc = IF jobs.walk + 1 < MaxWalks
                                    THEN "init" ELSE "returned",
                             !.result = IF jobs.walk + 1 < MaxWalks
                                        THEN @ ELSE "Ok"]
             ELSE jobs' = [jobs EXCEPT !.runs[oos].sim = "Err",
                                       !.pc = "returned", !.result = "Err"]
    /\ UNCHANGED jobs_frame

NextJobs ==
    \/ SingleCreate
    \/ SingleSimulate
    \/ SingleMark
    \/ OptimizerInitialize
    \/ \E i \in 1..(MaxRuns * MaxWalks + MaxWalks) : WorkerSimulate(i)
    \/ \E i \in 1..(MaxRuns * MaxWalks + MaxWalks) : WorkerMark(i)
    \/ OptimizerReturn
    \/ WfoAnalyze
    \/ WfoOosRun

SpecJobs == InitJobs /\ [][NextJobs]_vars

-----------------------------------------------------------------------------
(* generate_parameter_sets (SpecGen): optimizer/src/generator.rs            *)

MaxParams == 2
MaxValues == 2
MaxPoint == 2

\* a Decimal is a mantissa and a scale: [m |-> 15, scale |-> 1] is 1.5
Dec(m, scale) == [m |-> m, scale |-> scale]
Pow10(n) == IF n = 0 THEN 1 ELSE 10
DecRescale(a, scale) == a.m * Pow10(scale - a.scale)
DecMaxScale(a, b) == IF a.scale >= b.scale THEN a.scale ELSE b.scale

\* Decimal's `<=` compares the values, Decimal's `+=` keeps the larger scale
DecLe(a, b) ==
    DecRescale(a, DecMaxScale(a, b)) <= DecRescale(b, DecMaxScale(a, b))

DecAdd(a, b) ==
    Dec(DecRescale(a, DecMaxScale(a, b)) + DecRescale(b, DecMaxScale(a, b)),
        DecMaxScale(a, b))

IntPoints == 1..MaxPoint
IntSteps == 0..2
DecPoints == {Dec(1, 0), Dec(10, 1), Dec(15, 1)}
DecSteps == {Dec(0, 0), Dec(5, 1), Dec(1, 0)}

ListsOf(S) == UNION {[1..n -> S] : n \in 0..MaxValues}

\* configuration optimizer_config.rs 83-88: enum ParameterRange
DiscreteInt(vals) ==
    [kind |-> "DiscreteInt", ints |-> vals, decs |-> <<>>]
DiscreteDecimal(vals) ==
    [kind |-> "DiscreteDecimal", ints |-> <<>>, decs |-> vals]
LinearInt(start, end, step) ==
    [kind |-> "LinearInt", ints |-> <<start, end, step>>, decs |-> <<>>]
LinearDecimal(start, end, step) ==
    [kind |-> "LinearDecimal", ints |-> <<>>, decs |-> <<start, end, step>>]

ParameterRange ==
    {DiscreteInt(vals) : vals \in ListsOf(IntPoints)}
        \cup {DiscreteDecimal(vals) : vals \in ListsOf(DecPoints)}
        \cup {LinearInt(r[1], r[2], r[3]) : r \in IntPoints \X IntPoints \X IntSteps}
        \cup {LinearDecimal(r[1], r[2], r[3]) : r \in DecPoints \X DecPoints \X DecSteps}

\* json!(v) of an i64 is a Number; of a Decimal it is the text of the
\* Decimal, scale included
JsonInt(v) == [t |-> "Number", m |-> v, scale |-> 0]
JsonDecimal(v) == [t |-> "String", m |-> v.m, scale |-> v.scale]

\* line 26: (start..=end).step_by(step)
RECURSIVE LinearIntValues(_, _, _)
LinearIntValues(start, end, step) ==
    IF start > end THEN <<>>
    ELSE <<JsonInt(start)>> \o LinearIntValues(start + step, end, step)

\* lines 35-40: while current <= end { push(current); current += step }
RECURSIVE LinearDecimalValues(_, _, _)
LinearDecimalValues(current, end, step) ==
    IF ~DecLe(current, end) THEN <<>>
    ELSE <<JsonDecimal(current)>> \o LinearDecimalValues(DecAdd(current, step), end, step)

\* lines 19 and 28: the step of a linear range is not positive
BadStep(range) ==
    \/ range.kind = "LinearInt" /\ range.ints[3] <= 0
    \/ range.kind = "LinearDecimal" /\ range.decs[3].m <= 0

\* lines 15-42: the concrete list of values of one range
RangeValues(range) ==
    CASE range.kind = "DiscreteInt" ->
            [i \in 1..Len(range.ints) |-> JsonInt(range.ints[i])]
      [] range.kind = "DiscreteDecimal" ->
            [i \in 1..Len(range.decs) |-> JsonDecimal(range.decs[i])]
      [] range.kind = "LinearInt" ->
            LinearIntValues(range.ints[1], range.ints[2], range.ints[3])
      [] range.kind = "LinearDecimal" ->
            LinearDecimalValues(range.decs[1], range.decs[2], range.decs[3])

RECURSIVE Concat(_)
Concat(seqs) == IF seqs = <<>> THEN <<>> ELSE Head(seqs) \o Concat(Tail(seqs))

\* itertools multi_cartesian_product: every choice of one value per list,
\* the last list varying fastest
RECURSIVE MultiCartesianProduct(_)
MultiCartesianProduct(lists) ==
    IF lists = <<>> THEN << <<>> >>
    ELSE LET rest == MultiCartesianProduct(Tail(lists))
         IN Concat([i \in 1..Len(Head(lists)) |->
                       [j \in 1..Len(rest) |-> <<Head(lists)[i]>> \o rest[j]]])

\* the orders in which a HashMap of these names can be iterated
Orders(names) ==
    {order \in [1..Cardinality(names) -> names] :
        \A i, j \in DOMAIN order : i /= j => order[i] /= order[j]}

\* lines 8-62, the parameter names iterated in the given order
generate_parameter_sets(space, order) ==
    IF \E name \in DOMAIN space : BadStep(space[name])
    THEN [ok |-> FALSE, sets |-> <<>>]
    ELSE LET products == MultiCartesianProduct(
                            [i \in DOMAIN order |-> RangeValues(space[order[i]])])
         IN [ok |-> TRUE,
             sets |-> [k \in 1..Len(products) |->
                          [name \in DOMAIN space |->
                              products[k][CHOOSE i \in DOMAIN order : order[i] = name]]]]

\* the number of values a range stands for
RangeSize(range) ==
    CASE range.kind = "DiscreteInt" -> Len(range.ints)
      [] range.kind = "DiscreteDecimal" -> Len(range.decs)
      [] range.kind = "LinearInt" ->
            IF range.ints[1] > range.ints[2] THEN 0
            ELSE (range.ints[2] - range.ints[1]) \div range.ints[3] + 1
      [] range.kind = "LinearDecimal" ->
            IF ~DecLe(range.decs[1], range.decs[2]) THEN 0
            ELSE (DecRescale(range.decs[2], 1) - DecRescale(range.decs[1], 1))
                    \div DecRescale(range.decs[3], 1) + 1

RECURSIVE SpaceSize(_, _)
SpaceSize(space, names) ==
    IF names = {} THEN 1
    ELSE LET name == CHOOSE n \in names : TRUE
         IN RangeSize(space[name]) * SpaceSize(space, names \ {name})

gen_frame == <<pf_vars, risk_vars, bt_vars, eng_vars, connector, bus, jobs, wfo, call, pipe>>

InitGen ==
    /\ PortfolioIdle
    /\ RiskIdle
    /\ BtIdle
    /\ EngIdle
    /\ ConnectorIdle
    /\ BusIdle
    /\ JobsIdle
    /\ CallIdle
    /\ PipeIdle
    /\ WfoIdle
    /\ \E n \in 1..MaxParams :
          \E space \in [1..n -> ParameterRange] :
             gen = [status |-> "args", space |-> space,
                    result |-> [ok |-> FALSE, sets |-> <<>>]]

GenerateParameterSets ==
    /\ gen.status = "args"
    /\ \E order \in Orders(DOMAIN gen.space) :
          gen' = [gen EXCEPT !.status = "returned",
                             !.result = generate_parameter_sets(gen.space, order)]
    /\ UNCHANGED gen_frame

NextGen == GenerateParameterSets

SpecGen == InitGen /\ [][NextGen]_vars

-----------------------------------------------------------------------------
(* WfoEngine::generate_walk_forward_periods (SpecWfo): wfo/src/lib.rs       *)

MaxSpanWeeks == 6
MaxInSampleWeeks == 2
MaxOutOfSampleWeeks == 2

\* chrono Duration::weeks(n), in days; dates are days since the start date
Weeks(n) == 7 * n

WalkPeriod(is_start, is_end, oos_start, oos_end) ==
    [is_start |-> is_start, is_end |-> is_end,
     oos_start |-> oos_start, oos_end |-> oos_end]

\* lines 163-177: one turn of the loop and the turns after it
RECURSIVE WalkPeriodsFrom(_, _, _)
WalkPeriodsFrom(current_start, end_date, config) ==
    LET is_start == current_start
        is_end == is_start + Weeks(config.in_sample_weeks)
        oos_start == is_end
        oos_end == oos_start + Weeks(config.out_of_sample_weeks)
    IN IF oos_end > end_date
       THEN <<>>
       ELSE <<WalkPeriod(is_start, is_end, oos_start, oos_end)>>
               \o WalkPeriodsFrom(oos_start, end_date, config)

\* lines 154-185
generate_walk_forward_periods(start_date, end_date, config) ==
    LET periods == WalkPeriodsFrom(start_date, end_date, config)
    IN IF periods = <<>>
       THEN [ok |-> FALSE, periods |-> <<>>]
       ELSE [ok |-> TRUE, periods |-> periods]

wfo_frame == <<pf_vars, risk_vars, bt_vars, eng_vars, connector, bus, jobs, gen, call, pipe>>

InitWfo ==
    /\ PortfolioIdle
    /\ RiskIdle
    /\ BtIdle
    /\ EngIdle
    /\ ConnectorIdle
    /\ BusIdle
    /\ JobsIdle
    /\ CallIdle
    /\ PipeIdle
    /\ GenIdle
    /\ \E end_date \in 0..Weeks(MaxSpanWeeks),
          is_weeks \in 1..MaxInSampleWeeks,
          oos_weeks \in 1..MaxOutOfSampleWeeks :
          wfo = [status |-> "args", start_date |-> 0, end_date |-> end_date,
                 config |-> [in_sample_weeks |-> is_weeks,
                             out_of_sample_weeks |-> oos_weeks],
                 result |-> [ok |-> FALSE, periods |-> <<>>]]

GenerateWalkForwardPeriods ==
    /\ wfo.status = "args"
    /\ wfo' = [wfo EXCEPT
                 !.status = "returned",
                 !.result = generate_walk_forward_periods(wfo.start_date,
                                                          wfo.end_date, wfo.config)]
    /\ UNCHANGED wfo_frame

NextWfo == GenerateWalkForwardPeriods

SpecWfo == InitWfo /\ [][NextWfo]_vars

-----------------------------------------------------------------------------
(* Analyzer::score_reports (SpecAnalyzer): analyzer/src/lib.rs              *)

MaxReports == 2
MaxMetric == 1

\* Decimal::MAX, scaled; Decimal::MIN is its negation
DecimalMax == 1000000
\* Decimal::ONE, a normalized value being counted in thousandths
NormOne == 1000

svc_frame == <<pf_vars, risk_vars, bt_vars, eng_vars, connector, bus, jobs, gen, wfo, pipe>>

CallInit ==
    /\ PortfolioIdle
    /\ RiskIdle
    /\ BtIdle
    /\ EngIdle
    /\ ConnectorIdle
    /\ BusIdle
    /\ JobsIdle
    /\ GenIdle
    /\ WfoIdle
    /\ PipeIdle

Metrics == {"profit_factor", "calmar_ratio", "payoff_ratio"}

\* optimizer_config.rs 71-79: Weights::default, in thousandths
ScoringWeights ==
    [profit_factor |-> 400, calmar_ratio |-> 400, payoff_ratio |-> 200]

\* repository.rs 87, 92, 99: the metrics of a FullReport are Option<Decimal>
FullReports == [Metrics -> {None} \cup {Some(v) : v \in 0..MaxMetric}]

unwrap_or_default(opt) == IF opt.some THEN opt.value ELSE 0

\* Decimal's `-`: panics when the result is outside the range of Decimal
DecimalSub(a, b) ==
    IF Abs(a - b) > DecimalMax THEN Err("Subtraction overflowed") ELSE Ok(a - b)

\* lines 109-120: the fold over the values that are Some
RECURSIVE find_min_max_from(_, _, _)
find_min_max_from(reports, metric, acc) ==
    IF reports = <<>> THEN acc
    ELSE LET val == Head(reports)[metric]
         IN find_min_max_from(Tail(reports), metric,
               IF val.some
               THEN [min |-> Min(acc.min, val.value),
                     max |-> IF acc.max >= val.value THEN acc.max ELSE val.value]
               ELSE acc)

find_min_max(reports, metric) ==
    find_min_max_from(reports, metric, [min |-> DecimalMax, max |-> 0 - DecimalMax])

\* lines 123-128
normalize(value, min, max) ==
    IF min = max THEN Ok(NormOne)
    ELSE LET num == DecimalSub(value, min)
             den == DecimalSub(max, min)
         IN IF ~num.ok THEN num
            ELSE IF ~den.ok THEN den
            ELSE Ok((num.value * NormOne) \div den.value)

\* lines 89-91: the three normalized metrics of one report
NormsOf(report, reports) ==
    [metric \in Metrics |->
        normalize(unwrap_or_default(report[metric]),
                  find_min_max(reports, metric).min,
                  find_min_max(reports, metric).max)]

\* lines 80-106: a panic of any normalize ends the call
score_reports(reports) ==
    IF \E i \in 1..Len(reports), metric \in Metrics : ~NormsOf(reports[i], reports)[metric].ok
    THEN [panicked |-> TRUE, ranked |-> <<>>]
    ELSE [panicked |-> FALSE,
          ranked |-> [i \in 1..Len(reports) |->
                        LET norm == NormsOf(reports[i], reports)
                        IN [norm |-> [metric \in Metrics |-> norm[metric].value],
                            score |-> norm["profit_factor"].value * ScoringWeights["profit_factor"]
                                      + norm["calmar_ratio"].value * ScoringWeights["calmar_ratio"]
                                      + norm["payoff_ratio"].value * ScoringWeights["payoff_ratio"]]]]

\* the runs that survived the filters: run() returns before scoring when
\* there is none
InitAnalyzer ==
    /\ CallInit
    /\ \E n \in 1..MaxReports :
          \E reports \in [1..n -> FullReports] :
             call = [status |-> "args", fn |-> "score_reports", reports |-> reports,
                     result |-> [panicked |-> FALSE, ranked |-> <<>>]]

ScoreReports ==
    /\ call.status = "args"
    /\ call.fn = "score_reports"
    /\ call' = [call EXCEPT !.status = "returned",
                            !.result = score_reports(call.reports)]
    /\ UNCHANGED svc_frame

NextAnalyzer == ScoreReports

SpecAnalyzer == InitAnalyzer /\ [][NextAnalyzer]_vars

-----------------------------------------------------------------------------
(* Claims on Backtester::run (SpecBacktest, SpecTwoRuns)                    *)

\* C4: on a bar that hits the tracked stop-loss of the open position the
\* strategy is not evaluated, the whole position is closed and the symbol is
\* flat, exactly one Trade pairing the stored entry with the stop exit is
\* emitted, and the stop is cleared.
StopLossClosesPosition ==
    bt.last_bar.stop_hit =>
        /\ ~bt.last_bar.evaluated
        /\ bt.last_bar.exit.quantity = bt.last_bar.position_before.value.quantity
        /\ ~get_position(bt.portfolio, BtSymbol).some
        /\ Len(bt.completed_trades) = bt.last_bar.trades_before + 1
        /\ bt.completed_trades[Len(bt.completed_trades)] =
              [entry_execution |-> bt.last_bar.pending_before.value,
               exit_execution |-> bt.last_bar.exit]
        /\ ~bt.stop_loss_price.some

\* C5: when the stop-loss triggers, the exit execution fills at the tracked
\* stop-loss price.
StopExitFillsAtStopPrice ==
    bt.last_bar.stop_hit =>
        bt.last_bar.exit.price * BtRisk.stop_loss_pct.den = bt.last_bar.stop_before

\* C9: when the risk manager rejects the signal of a bar, the run does not end
\* with an error; only that bar's signal is skipped.
RiskRejectionSkipsBar ==
    (bt.last_bar.risk.some /\ ~bt.last_bar.risk.value.ok) => bt.status /= "error"

\* C10: two runs over the same klines, capital, configuration and strategy
\* outputs produce equal reports.
RunsAreDeterministic ==
    (bt.status = "done" /\ bt2.status = "done") => bt.report = bt2.report

-----------------------------------------------------------------------------
(* Claims on the Portfolio ledger and the reconciler (SpecPortfolio)       *)

\* C1: as long as every execution applied since construction was accepted
\* (Ok), cash equals the initial cash plus the sell proceeds, minus the buy
\* costs, minus the fees of those executions, exactly.
CashIsInitialPlusFlows ==
    ledger.all_ok =>
        portfolio.cash = ledger.initial_cash + ledger.sells - ledger.buys - ledger.fees

\* a Buy and a Sell, one of them with a fee, were both accepted
CashIsInitialPlusFlowsWitness ==
    /\ ledger.all_ok
    /\ ledger.sells > 0
    /\ ledger.buys > 0
    /\ ledger.fees > 0

\* the exchange's USDT balance of a balance response: absent means none held
ExchangeUsdt(balances) ==
    LET u == FindUsdt(balances)
    IN IF u.some THEN u.value.available_balance ELSE 0

\* C2: after run_reconciliation returns Ok the local portfolio equals the
\* fetched snapshot: cash is the exchange's USDT balance and the position map
\* holds exactly the exchange's non-zero positions (side from the sign of
\* position_amt, quantity its absolute value, entry price as reported).
ReconciledEqualsExchange ==
    (last_call.op = "run_reconciliation" /\ last_call.result = "Ok") =>
        LET open == {i \in 1..Len(last_call.positions) :
                        last_call.positions[i].position_amt /= 0}
        IN /\ portfolio.cash = ExchangeUsdt(last_call.balances)
           /\ DOMAIN portfolio.positions = {last_call.positions[i].symbol : i \in open}
           /\ \A i \in open :
                 LET live_pos == last_call.positions[i]
                     local == portfolio.positions[live_pos.symbol]
                 IN /\ local.side = (IF live_pos.position_amt > 0 THEN "Buy" ELSE "Sell")
                    /\ local.quantity = Abs(live_pos.position_amt)
                    /\ local.entry_price = live_pos.entry_price

\* C7: a call of update_with_execution that starts with cash >= 0 leaves
\* cash >= 0 when it returns, whether it returns Ok or an error.
CashNonNegativeAfterCall ==
    (last_call.op = "update_with_execution" /\ last_call.before.cash >= 0) =>
        portfolio.cash >= 0

\* C8: a symbol has an entry in the position map only with a quantity > 0,
\* after any sequence of executions, reconciliations and syncs; a position
\* whose quantity reaches zero is removed.
PositionIffPositiveQuantity ==
    \A s \in DOMAIN portfolio.positions : portfolio.positions[s].quantity > 0

\* an accepted execution closed the whole of an existing position and the
\* symbol is no longer in the map
PositionIffPositiveQuantityWitness ==
    /\ last_call.op = "update_with_execution"
    /\ last_call.result = "Ok"
    /\ last_call.execution.symbol \in DOMAIN last_call.before.positions
    /\ last_call.before.positions[last_call.execution.symbol].side /= last_call.execution.side
    /\ last_call.before.positions[last_call.execution.symbol].quantity
          = last_call.execution.quantity
    /\ last_call.execution.quantity > 0
    /\ last_call.execution.symbol \notin DOMAIN portfolio.positions

-----------------------------------------------------------------------------
(* Claims on the live engine (SpecEngine)                                  *)

\* C3: a strategy error, a risk rejection, a failed executor call, a failed
\* portfolio update or a failed exchange sync while handling an event does not
\* end the main loop of LiveEngine::run: the failure is logged, the engine is
\* back at the receive of the loop, which takes the next event of the fan-in
\* channel if there is one, and the loop is left only when the channel is
\* closed and empty.
EngineSurvivesErrors ==
    /\ engine.failure /= "none" =>
          /\ \/ engine.pc = "recv"
             \/ engine.pc = "returned" /\ Senders = {} /\ event_in = <<>>
          /\ FailureLogs /= <<>>
          /\ FailureLogs[Len(FailureLogs)].error = engine.failure
    /\ Len(FailureLogs) = engine.failures
    /\ (engine.pc = "recv" /\ event_in /= <<>>) => ENABLED EngineRecv

\* an event failed and the event after it was received and handled
EngineSurvivesErrorsWitness ==
    /\ engine.pc = "recv"
    /\ engine.failures >= 1
    /\ engine.failure = "none"
    /\ engine.received >= 2
    /\ engine.handled = engine.received

\* C11: neither the engine loop nor the reconciler holds the portfolio lock
\* at a suspension point: whoever holds it is at the synchronous section that
\* ends with the release and that section can run, so the lock is never held
\* during an exchange request, an executor call, a channel receive or a timer
\* wait; and every lock acquisition either task waits for is eventually
\* granted.
LockHolderAtBody ==
    /\ lock = "engine" => (engine.pc \in EngineLockPoints /\ reconciler.pc /= "locked")
    /\ lock = "reconciler" => reconciler.pc = "locked"
    /\ reconciler.pc = "locked" => lock = "reconciler"
    /\ engine.pc \in {"init", "recv", "execute", "sync_fetch"} => lock /= "engine"
    /\ reconciler.pc \in {"tick", "lock"} => lock /= "reconciler"

LockNotHeldAcrossAwait ==
    /\ []LockHolderAtBody
    /\ (engine.pc \in EngineLockPoints) ~> (lock = "engine")
    /\ (reconciler.pc = "lock") ~> (lock = "reconciler")

\* the reconciler waits for the lock while the engine holds it
LockNotHeldAcrossAwaitWitness ==
    /\ lock = "engine"
    /\ reconciler.pc = "lock"

\* C12: when the engine is back at the receive of its loop after an event
\* whose executor call returned an Execution, it has applied the execution,
\* broadcast a PortfolioState, synchronised the portfolio with the exchange
\* and broadcast a PortfolioState again, in that order.
ExecutionAppliedThenSynced ==
    (engine.pc = "recv" /\ engine.trail /= <<>>) =>
        engine.trail = <<"execution", "apply", "broadcast", "sync", "broadcast">>

\* C13: a failed reconciliation pass does not end the reconciler task: the
\* failure is logged, the task is back at its timer, and after a failed pass,
\* whatever the number of failures before it, another pass is made at the
\* next tick.
ReconcilerAtLoop ==
    /\ reconciler.pc \in {"tick", "lock", "locked"}
    /\ Len(LogsOf("reconciler")) = reconciler.failures

ReconcilerSurvivesFailures ==
    /\ []ReconcilerAtLoop
    /\ \A n \in 1..(MaxTicks - 1) :
          (reconciler.last_failed /\ reconciler.passes = n /\ reconciler.failures = n)
              ~> (reconciler.passes = n + 1)

\* two passes in a row failed and the pass after them went through
ReconcilerSurvivesFailuresWitness ==
    /\ reconciler.failures = 2
    /\ reconciler.passes = 3
    /\ ~reconciler.last_failed
    /\ reconciler.pc = "tick"

-----------------------------------------------------------------------------
(* Claims on the stream tasks (SpecConnector)                              *)

\* C14: while the engine holds the receiver of a stream task, the task never
\* ends: every failed connection attempt and every lost connection puts it
\* into the 5-second backoff, after which it is about to connect again, and
\* every item it reads, on whichever connection, has been sent to the engine.
StreamTaskKeepsGoing ==
    \A s \in StreamTasks :
        LET t == connector.task[s]
        IN /\ t.rx_alive => t.pc \in {"connect", "read", "backoff"}
           /\ t.pc = "backoff" <=> t.sleep = BackoffSecs
           /\ t.rx_alive => t.sent = t.items

CacheHoldsLatestState ==
    ~CanRecv(bus, "cache") => bus.cache = bus.last_state


\* every producer is still running, and the channel holds at most its
\* capacity of messages; what a receiver has not been given of the messages
\* stored since it subscribed, it was told in a lag count, and only messages
\* that had been overwritten were skipped
ProducersKeepRunning ==
    /\ \A p \in Producers : bus.producer[p].pc = "running"
    /\ Len(bus.buf) <= BusCapacity
    /\ bus.tail <= bus.attempts
    /\ \A r \in Receivers :
          bus.rx[r].state /= "none" =>
              /\ bus.rx[r].received + bus.rx[r].lagged = bus.rx[r].next - bus.rx[r].start
              /\ bus.rx[r].next <= bus.tail + 1
              /\ bus.rx[r].lagged > 0 => bus.rx[r].lagged <= HeadPos(bus) - bus.rx[r].start

\* C17: broadcasting never blocks or fails the producer: the engine and the
\* reconciler complete every send and go on, with no subscriber or with
\* subscribers slower than they are; a slow subscriber loses the oldest
\* messages and is given a lag count.
BroadcastNeverStopsProducer ==
    /\ []ProducersKeepRunning
    /\ <>(bus.attempts = bus.limit)

BroadcastNeverStopsProducerWitness ==
    /\ bus.attempts = bus.limit
    /\ bus.rx["alerter"].state = "open"
    /\ bus.rx["alerter"].lagged >= 1
    /\ bus.rx["alerter"].received >= 1
    /\ bus.rx["alerter"].next = bus.tail + 1


\* C18: in every workflow a BacktestRun row starts Pending and, once its
\* simulation has ended, is marked Completed if the simulation succeeded and
\* Failed if it failed: when the workflow has returned, no run whose
\* simulation has ended is left Pending.
RunStatusFollowsSimulation ==
    /\ \A i \in 1..Len(jobs.runs) :
          /\ jobs.runs[i].status = "Completed" => jobs.runs[i].sim = "Ok"
          /\ jobs.runs[i].status = "Failed" => jobs.runs[i].sim = "Err"
    /\ jobs.pc = "returned" =>
          \A i \in 1..Len(jobs.runs) :
             jobs.runs[i].sim \in SimResults =>
                jobs.runs[i].status = StatusOf(jobs.runs[i].sim)


\* C19: for every parameter space with positive steps, generate_parameter_sets
\* returns as many sets as the product of the sizes of the ranges, and the
\* returned sets are pairwise distinct.
OneSetPerCombination ==
    (gen.status = "returned" /\ gen.result.ok) =>
        /\ Len(gen.result.sets) = SpaceSize(gen.space, DOMAIN gen.space)
        /\ \A i, j \in 1..Len(gen.result.sets) :
              i /= j => gen.result.sets[i] /= gen.result.sets[j]


\* C20: for every positive in-sample and out-of-sample week count, the
\* out-of-sample windows of two distinct walks share no interior time.
OutOfSampleWindowsDisjoint ==
    (wfo.status = "returned" /\ wfo.result.ok) =>
        \A i, j \in 1..Len(wfo.result.periods) :
           i < j => wfo.result.periods[i].oos_end <= wfo.result.periods[j].oos_start


\* C21: whenever all surviving runs have the same value for a metric, in
\* particular whenever a single run survives, that metric's normalized
\* component is exactly 1 and contributes its weight, so the score of a single
\* surviving run is the sum of the three weights.
EqualMetricContributesItsWeight ==
    call.status = "returned" =>
        /\ ~call.result.panicked
        /\ \A metric \in Metrics :
              (\A i \in 1..Len(call.reports) : call.reports[i][metric] = call.reports[1][metric]) =>
                 \A i \in 1..Len(call.reports) : call.result.ranked[i].norm[metric] = NormOne
        /\ Len(call.reports) = 1 =>
              call.result.ranked[1].score =
                 NormOne * (ScoringWeights["profit_factor"] + ScoringWeights["calmar_ratio"]
                            + ScoringWeights["payoff_ratio"])


\* C22: the report's total_net_profit is net of fees: it is the sum over the
\* trades of (exit price - entry price) x quantity, negated for shorts, minus
\* the fees of the entry and the exit execution of each trade.
TotalNetProfitIsNetOfFees ==
    (bt.status = "done" /\ bt.report.some) =>
        bt.report.value.total_net_profit =
            SumSeq([i \in 1..Len(bt.completed_trades) |->
                       TradePnl(bt.completed_trades[i])
                       - bt.completed_trades[i].entry_execution.fee
                       - bt.completed_trades[i].exit_execution.fee])


\* C23: the local portfolio is never overwritten with an exchange snapshot
\* older than one already applied: when the engine's post-execution sync and a
\* reconciler pass overlap, neither writes a snapshot fetched before the one
\* the other has already written.
NoStaleSnapshotWritten ==
    /\ engine.pc /= "idle" => engine.age /= "wrote_stale"
    /\ reconciler.pc /= "idle" => reconciler.age /= "wrote_stale"


\* C24: a call of update_with_execution that returns an error leaves the
\* portfolio as it was before the call: cash and every position unchanged.
FailedUpdateLeavesPortfolio ==
    (last_call.op = "update_with_execution" /\ last_call.result /= "Ok") =>
        portfolio = last_call.before

\* C27: an opening execution at price p with zero fee leaves the total equity
\* valued at p unchanged, for a Buy and for a Sell opening.
OpeningKeepsEquity ==
    (/\ last_call.op = "update_with_execution"
     /\ last_call.result = "Ok"
     /\ last_call.execution.fee = 0
     /\ ~get_position(last_call.before, last_call.execution.symbol).some
     /\ DOMAIN last_call.before.positions = {}) =>
        calculate_total_equity(portfolio,
            [s \in DOMAIN portfolio.positions |-> last_call.execution.price])
        = last_call.before.cash


\* the run stands at the end of a bar: the loop body ran to its end at least once
AtBarEnd == bt.status \in {"running", "done"} /\ bt.bar >= 1

\* what is tracked at the end of a bar matches the open position
TrackedIffPosition ==
    AtBarEnd =>
        /\ bt.pending_entry.some <=> get_position(bt.portfolio, BtSymbol).some
        /\ bt.stop_loss_price.some <=> get_position(bt.portfolio, BtSymbol).some

\* a bar that stores a pending entry opened the position with that execution, and
\* a bar that emits a Trade closed the position and paired the stored entry
\* with the closing execution
TradePairsOpenWithClose ==
    (bt.status = "running" /\ bt'.status = "running" /\ bt'.bar = bt.bar + 1) =>
        LET before == get_position(bt.portfolio, BtSymbol)
            after == get_position(bt'.portfolio, BtSymbol)
            n == Len(bt.completed_trades)
        IN /\ (bt'.pending_entry.some /\ bt'.pending_entry /= bt.pending_entry) =>
                 /\ ~before.some
                 /\ after.some
                 /\ after.value.side = bt'.pending_entry.value.side
                 /\ after.value.entry_price = bt'.pending_entry.value.price
           /\ Len(bt'.completed_trades) \in {n, n + 1}
           /\ SubSeq(bt'.completed_trades, 1, n) = bt.completed_trades
           /\ Len(bt'.completed_trades) = n + 1 <=> (before.some /\ ~after.some)
           /\ Len(bt'.completed_trades) = n + 1 =>
                 /\ bt.pending_entry.some
                 /\ bt'.completed_trades[n + 1].entry_execution = bt.pending_entry.value
                 /\ bt'.completed_trades[n + 1].exit_execution.side = opposite(before.value.side)
                 /\ bt'.completed_trades[n + 1].exit_execution.quantity = before.value.quantity

EquityPointPerKline ==
    (bt.status = "running" /\ bt.bar = bt.n_klines) =>
        /\ Len(bt.equity_curve) = bt.n_klines
        /\ \A i \in 1..Len(bt.equity_curve) : bt.equity_curve[i][1] = i


\* C28: an order returned by evaluate_signal when no position exists on the
\* symbol has quantity x entry price at most 95% of the cash and at most
\* risk_capital / stop_loss_pct, after the 6-decimal and the step rounding.
SizedOrderWithinCaps ==
    (risk_call.state = "returned" /\ risk_call.result.ok /\ ~RiskCallPosition.some) =>
        LET value == risk_call.result.value.quantity * risk_call.entry_price
            params == risk_call.params
        IN /\ value * 20 <= risk_call.portfolio_state.cash * 19
           /\ value * params.risk_per_trade_pct.den * params.stop_loss_pct.num
                 <= risk_call.portfolio_state.total_value
                       * params.risk_per_trade_pct.num * params.stop_loss_pct.den

\* C29: every order returned (Ok) by evaluate_signal has quantity > 0.
ReturnedOrderHasQuantity ==
    (risk_call.state = "returned" /\ risk_call.result.ok) =>
        risk_call.result.value.quantity > 0


-----------------------------------------------------------------------------
(* SpecLimit: executor::LimitOrderExecutor::execute                         *)
(*                                                                         *)
(* Prices are counted in thousandths (0.001), quantities in millionths.     *)

\* the highest quoted price, in thousandths
MaxQuote == 12

\* lines 17-21: the tick size of a symbol, in thousandths
TickSize(symbol) == IF symbol = "BTCUSDT" THEN 100 ELSE 10

\* round_price_to_tick_size: (price / tick_size).round() * tick_size; the price
\* is given as the fraction n / d of a thousandth
round_price_to_tick_size(symbol, n, d) ==
    RoundHalfEven(n, d * TickSize(symbol)) * TickSize(symbol)

\* round_quantity_to_step_size: floor to the step of 0.001, a positive
\* quantity below one step becomes one step
round_quantity_to_step_size(symbol, quantity) ==
    LET rounded == (quantity \div 1000) * 1000
    IN IF quantity > 0 /\ rounded = 0 THEN 1000 ELSE rounded

\* lines 232-251: the price 10% into the spread, in tenths of a thousandth
calculated_price(side, bid, ask) ==
    IF side = "Buy" THEN 10 * bid + (ask - bid) ELSE 10 * ask - (ask - bid)

\* lines 221-268: the limit order that execute hands to place_limit_order, or
\* the error it returns before that
limit_order(order, best_bid, best_ask) ==
    IF ~(best_bid.some /\ best_ask.some) THEN Err("Api")
    ELSE IF best_bid.value >= best_ask.value THEN Err("Api")
    ELSE Ok([order EXCEPT
                !.order_type = "Limit",
                !.price = Some(round_price_to_tick_size(
                              order.symbol,
                              calculated_price(order.side, best_bid.value, best_ask.value),
                              10)),
                !.quantity = round_quantity_to_step_size(order.symbol, order.quantity)])

\* the best bid or ask the engine's order-book cache holds, if any
Quotes == {None} \cup {Some(q) : q \in 1..MaxQuote}

\* the market orders the engine hands to the executor
LimitRequests ==
    {[symbol |-> s, side |-> d, order_type |-> "Market", quantity |-> q, price |-> None] :
        s \in Symbols, d \in Sides, q \in {500, 2500}}

InitLimit ==
    /\ CallInit
    /\ \E order \in LimitRequests, best_bid \in Quotes, best_ask \in Quotes :
          call = [status |-> "args", fn |-> "execute", order |-> order,
                  best_bid |-> best_bid, best_ask |-> best_ask,
                  submitted |-> None, result |-> None]

\* LimitOrderExecutor::execute; the exchange accepts the order and answers with
\* its price and quantity, or the request fails
LimitExecute ==
    /\ call.status = "args"
    /\ call.fn = "execute"
    /\ LET lo == limit_order(call.order, call.best_bid, call.best_ask)
       IN IF ~lo.ok
          THEN call' = [call EXCEPT !.status = "returned", !.result = Some(lo)]
          ELSE \E api_ok \in BOOLEAN :
                  call' = [call EXCEPT
                              !.status = "returned",
                              !.submitted = Some(lo.value),
                              !.result =
                                  Some(IF api_ok
                                       THEN Ok([symbol |-> lo.value.symbol,
                                                side |-> lo.value.side,
                                                price |-> lo.value.price.value,
                                                quantity |-> lo.value.quantity,
                                                fee |-> 0])
                                       ELSE Err("Api"))]
    /\ UNCHANGED svc_frame

NextLimit == LimitExecute

SpecLimit == InitLimit /\ [][NextLimit]_vars

\* C30: for every bid < ask the limit price submitted after tick rounding lies
\* inside the spread: bid <= price < ask for a Buy, bid < price <= ask for a
\* Sell.
LimitPriceInsideSpread ==
    (/\ call.status = "returned"
     /\ call.fn = "execute"
     /\ call.best_bid.some
     /\ call.best_ask.some
     /\ call.best_bid.value < call.best_ask.value) =>
        /\ call.submitted.some
        /\ LET price == call.submitted.value.price.value
               bid == call.best_bid.value
               ask == call.best_ask.value
           IN IF call.order.side = "Buy"
              THEN bid <= price /\ price < ask
              ELSE bid < price /\ price <= ask


\* C31: the quantity that LimitOrderExecutor submits is the requested quantity
\* rounded toward zero to the step size: a multiple of the step and never
\* greater than the requested quantity.
SubmittedQuantityRoundedDown ==
    (call.status = "returned" /\ call.fn = "execute" /\ call.submitted.some) =>
        /\ call.submitted.value.quantity % 1000 = 0
        /\ call.submitted.value.quantity <= call.order.quantity


\* a reconciliation pass that just failed on an exchange fetch
FailedPassStep ==
    /\ last_call'.op = "run_reconciliation"
    /\ last_call'.result = "Api"
    /\ ops' = ops + 1

\* C34: a reconciliation pass that fails because a fetch of balances or
\* positions returns an error leaves cash and every position unchanged and
\* broadcasts no PortfolioState.
FailedPassLeavesPortfolio ==
    [][FailedPassStep => (portfolio' = portfolio /\ event_tx' = event_tx)]_vars

\* a pass failed while the portfolio held a position
FailedPassLeavesPortfolioWitness ==
    /\ last_call.op = "run_reconciliation"
    /\ last_call.result = "Api"
    /\ DOMAIN last_call.before.positions /= {}
    /\ portfolio = last_call.before


\* C35: the initial capital that Backtester::run passes to analytics equals the
\* portfolio's cash at the start of the run, whatever executions occurred and
\* whatever positions remain open.
InitialCapitalIsStartingCash ==
    (bt.status \in {"done", "error"} /\ bt.initial_capital.some) =>
        bt.initial_capital.value = BtInitialCapital

\* C36: every Execution of SimulatedExecutor::execute carries the close time of
\* the kline it was executed on.
ExecutionTimestampIsCloseTime ==
    (/\ bt.status = "running"
     /\ bt.last_bar.evaluated
     /\ ~bt.last_bar.position_before.some
     /\ bt.pending_entry.some) =>
        bt.pending_entry.value.timestamp = bt.last_bar.kline.close_time


-----------------------------------------------------------------------------
(* SpecProfitFactor: score_reports on runs that differ in profit factor     *)

\* surviving runs of one call
MaxScored == 3
\* the largest profit factor of a run
MaxProfitFactor == 2

\* reports whose Calmar and payoff ratios are all 1 and whose profit factor is
\* undefined or a whole number
ProfitFactorReports ==
    {[profit_factor |-> pf, calmar_ratio |-> Some(1), payoff_ratio |-> Some(1)] :
        pf \in {None} \cup {Some(v) : v \in 0..MaxProfitFactor}}

InitProfitFactor ==
    /\ CallInit
    /\ \E n \in 1..MaxScored :
          \E reports \in [1..n -> ProfitFactorReports] :
             call = [status |-> "args", fn |-> "score_reports", reports |-> reports,
                     result |-> [panicked |-> FALSE, ranked |-> <<>>]]

SpecProfitFactor == InitProfitFactor /\ [][NextAnalyzer]_vars

\* C37: for every surviving run and each of the three metrics the normalized
\* value lies in [0, 1], runs whose metric is None included; hence every score
\* lies between 0 and the sum of the weights.
NormalizedWithinUnit ==
    (call.status = "returned" /\ call.fn = "score_reports" /\ ~call.result.panicked) =>
        \A i \in 1..Len(call.result.ranked) :
            /\ \A metric \in Metrics :
                  /\ 0 <= call.result.ranked[i].norm[metric]
                  /\ call.result.ranked[i].norm[metric] <= NormOne
            /\ 0 <= call.result.ranked[i].score
            /\ call.result.ranked[i].score <=
                  NormOne * (ScoringWeights["profit_factor"] + ScoringWeights["calmar_ratio"]
                             + ScoringWeights["payoff_ratio"])


-----------------------------------------------------------------------------
(* SpecWfoLoop: the loop of generate_walk_forward_periods, turn by turn      *)
(*                                                                         *)
(* The periods vector is kept as whether it is empty and the parity of its  *)
(* length.                                                                  *)

\* lines 161-162: periods = Vec::new(), current_start = start_date
WfoLoopNew(start_date, end_date, config) ==
    [status |-> "loop", start_date |-> start_date, end_date |-> end_date,
     config |-> config, current_start |-> start_date,
     is_empty |-> TRUE, parity |-> 0,
     result |-> [ok |-> FALSE, periods |-> <<>>]]

InitWfoLoop ==
    /\ PortfolioIdle
    /\ RiskIdle
    /\ BtIdle
    /\ EngIdle
    /\ ConnectorIdle
    /\ BusIdle
    /\ JobsIdle
    /\ CallIdle
    /\ PipeIdle
    /\ GenIdle
    /\ \E end_date \in 0..Weeks(MaxSpanWeeks),
          is_weeks \in 0..MaxInSampleWeeks,
          oos_weeks \in 0..MaxOutOfSampleWeeks :
          wfo = WfoLoopNew(0, end_date, [in_sample_weeks |-> is_weeks,
                                         out_of_sample_weeks |-> oos_weeks])

\* lines 164-176: a turn that pushes a period and moves current_start to the
\* start of its out-of-sample window
WfoLoopPush ==
    /\ wfo.status = "loop"
    /\ LET is_end == wfo.current_start + Weeks(wfo.config.in_sample_weeks)
           oos_end == is_end + Weeks(wfo.config.out_of_sample_weeks)
       IN /\ ~(oos_end > wfo.end_date)
          /\ wfo' = [wfo EXCEPT !.current_start = is_end,
                                !.is_empty = FALSE,
                                !.parity = 1 - @]
    /\ UNCHANGED wfo_frame

\* lines 170-172 and 179-184: the break and the return
WfoLoopBreak ==
    /\ wfo.status = "loop"
    /\ LET is_end == wfo.current_start + Weeks(wfo.config.in_sample_weeks)
           oos_end == is_end + Weeks(wfo.config.out_of_sample_weeks)
       IN oos_end > wfo.end_date
    /\ wfo' = [wfo EXCEPT !.status = "returned", !.result.ok = ~wfo.is_empty]
    /\ UNCHANGED wfo_frame

NextWfoLoop ==
    \/ WfoLoopPush
    \/ WfoLoopBreak

\* the function runs on one thread that is never suspended: the loop keeps
\* taking turns
SpecWfoLoop == InitWfoLoop /\ [][NextWfoLoop]_vars /\ WF_vars(NextWfoLoop)

\* C38: generate_walk_forward_periods terminates for every date range and
\* every window configuration, lengths of zero included, returning a list of
\* periods or the range-too-short error.
WalkPeriodsTerminate == <>(wfo.status = "returned")


-----------------------------------------------------------------------------
(* The klines read by the two halves of WfoEngine::execute_walk             *)
(*                                                                         *)
(* An instant is a kline open time, counted in klines since the start date. *)

\* klines of the backtest interval per calendar day
DayParts == 2

\* the instant of midnight of a day of generate_walk_forward_periods
Midnight(day) == day * DayParts

\* DateTime::date_naive: the calendar day of an instant
date_naive(t) == t \div DayParts

\* NaiveDate::and_hms_opt(0, 0, 0): the first open time of the day
DayStart(date) == date * DayParts

\* NaiveDate::and_hms_opt(23, 59, 59): the last open time of the day
DayEnd(date) == date * DayParts + (DayParts - 1)

\* the open times of the klines table
KlineTimes == 0..Midnight(Weeks(MaxSpanWeeks) + 1)

\* DbRepository::get_klines_by_date_range: open_time >= $3 AND open_time <= $4
get_klines_by_date_range(start_date, end_date) ==
    {t \in KlineTimes : t >= start_date /\ t <= end_date}

\* wfo lib.rs 84-98 and optimizer lib.rs 145-148: the klines every in-sample
\* backtest of the walk reads
InSampleKlines(period) ==
    get_klines_by_date_range(DayStart(date_naive(Midnight(period.is_start))),
                             DayEnd(date_naive(Midnight(period.is_end))))

\* wfo lib.rs 124-137: the klines the out-of-sample backtest reads
OutOfSampleKlines(period) ==
    get_klines_by_date_range(Midnight(period.oos_start), Midnight(period.oos_end))

\* C39: within one walk no kline with open time at or after the OOS start is
\* read by the in-sample optimizer: the in-sample bars are disjoint from the
\* out-of-sample bars.
InSampleBeforeOutOfSample ==
    (wfo.status = "returned" /\ wfo.result.ok) =>
        \A i \in 1..Len(wfo.result.periods) :
            /\ \A t \in InSampleKlines(wfo.result.periods[i]) :
                  t < Midnight(wfo.result.periods[i].oos_start)
            /\ InSampleKlines(wfo.result.periods[i])
                  \cap OutOfSampleKlines(wfo.result.periods[i]) = {}


-----------------------------------------------------------------------------
(* SpecLoad: portfolio_backtester::load_and_prepare_data                     *)
(*                                                                         *)
(* A kline carries, as history, the symbol whose rows it was fetched from.  *)

\* bots of a portfolio definition
MaxBots == 3
\* klines of each symbol in the date range
MaxKlines == 2

\* the symbols a bot can trade
BotSymbols == {"BTCUSDT", "ETHUSDT", "XRPUSDT"}

\* portfolio_config.bots, as the symbols of the bots in their order
BotLists == UNION {[1..n -> BotSymbols] : n \in 1..MaxBots}

\* the orders in which a HashSet of symbols can be iterated
IterationOrders(S) ==
    {order \in [1..Cardinality(S) -> S] : \A x \in S : \E k \in DOMAIN order : order[k] = x}

\* the rows get_klines_by_date_range returns for a symbol, by open time
KlinesOf(symbol) == [t \in 1..MaxKlines |-> [fetched_for |-> symbol, open_time |-> t]]

\* lines 53-62: the klines of results[i] become events under bots[i].symbol
RECURSIVE EventsFrom(_, _, _)
EventsFrom(bots, order, i) ==
    IF i > Len(order) THEN <<>>
    ELSE [k \in 1..MaxKlines |-> [symbol |-> bots[i], kline |-> KlinesOf(order[i])[k]]]
            \o EventsFrom(bots, order, i + 1)

\* line 65: Vec::sort_by_key on the open time, a stable sort
RECURSIVE SortByTimestamp(_, _)
SortByTimestamp(events, t) ==
    IF t > MaxKlines THEN <<>>
    ELSE SelectSeq(events, LAMBDA e : e.kline.open_time = t) \o SortByTimestamp(events, t + 1)

\* load_and_prepare_data for one iteration order of the set of unique symbols
load_and_prepare_data(bots, order, db_ok) ==
    IF ~db_ok THEN Err("Database")
    ELSE Ok(SortByTimestamp(EventsFrom(bots, order, 1), 1))

InitLoad ==
    /\ CallInit
    /\ \E bots \in BotLists :
          call = [status |-> "args", fn |-> "load_and_prepare_data", bots |-> bots,
                  order |-> <<>>, result |-> None]

LoadAndPrepareData ==
    /\ call.status = "args"
    /\ call.fn = "load_and_prepare_data"
    /\ \E order \in IterationOrders({call.bots[i] : i \in DOMAIN call.bots}),
          db_ok \in BOOLEAN :
          call' = [call EXCEPT !.status = "returned",
                               !.order = order,
                               !.result = Some(load_and_prepare_data(call.bots, order, db_ok))]
    /\ UNCHANGED svc_frame

NextLoad == LoadAndPrepareData

SpecLoad == InitLoad /\ [][NextLoad]_vars

\* C40: every event of the stream built by load_and_prepare_data carries the
\* symbol whose klines it was fetched for, for any bot order, duplicate
\* symbols and any iteration order of the set of unique symbols.
EventsCarryFetchedSymbol ==
    (call.status = "returned" /\ call.fn = "load_and_prepare_data" /\ call.result.value.ok) =>
        \A i \in 1..Len(call.result.value.value) :
            call.result.value.value[i].symbol = call.result.value.value[i].kline.fetched_for


-----------------------------------------------------------------------------
(* SpecKlines: from the kline WebSocket tasks to the engine's main loop      *)
(*                                                                         *)
(* run subscribes once per interval; each subscription has one connector    *)
(* task, one mpsc channel and one handler task that forwards into the       *)
(* fan-in channel read by the main loop.  A kline is known by the serial    *)
(* number of the frame that carried it.  received and handled are history.  *)

\* frames read by all stream tasks together
MaxFrames == 4
\* mpsc::channel(10000) and mpsc::channel(1024), scaled down so that senders wait
PipeCapacity == 1

\* lines 253-256: the intervals of the enabled bots; a symbol has one bot and
\* so one interval
Intervals == {"1m", "5m"}
IntervalSymbols(interval) == IF interval = "1m" THEN {"BTCUSDT", "ETHUSDT"} ELSE {"XRPUSDT"}
PipeSymbols == UNION {IntervalSymbols(interval) : interval \in Intervals}

\* a connector task and its handler task right after they are spawned
KlineTaskNew == [received |-> <<>>, sending |-> None, rx |-> <<>>, forwarding |-> None]

\* every kline frame is converted and sent, closed or not
OnKlineFrameAll(t, frame) ==
    [t EXCEPT !.sending = Some(frame),
              !.received = IF frame.is_closed THEN Append(@, frame) ELSE @]

\* live_connector.rs 204-243: a kline frame is converted and sent only if the
\* kline is closed
OnKlineFrame(t, frame) ==
    IF frame.is_closed
    THEN [t EXCEPT !.sending = Some(frame), !.received = Append(@, frame)]
    ELSE t

\* the klines of a symbol in a sequence of frames or events
OfSymbol(seq, symbol) ==
    SelectSeq(seq, LAMBDA x : x.type = "Kline" /\ x.symbol = symbol)

\* an Option as the sequence of what it holds
OptSeq(opt) == IF opt.some THEN <<opt.value>> ELSE <<>>

pipe_frame == <<pf_vars, risk_vars, bt_vars, eng_vars, connector, bus, jobs, gen, wfo, call>>

InitKlines ==
    /\ PortfolioIdle
    /\ RiskIdle
    /\ BtIdle
    /\ EngIdle
    /\ ConnectorIdle
    /\ BusIdle
    /\ JobsIdle
    /\ GenIdle
    /\ WfoIdle
    /\ CallIdle
    /\ pipe = [status |-> "running", frames |-> 0,
               task |-> [interval \in Intervals |-> KlineTaskNew],
               event_in |-> <<>>, handled |-> <<>>]

\* stream.next() yields a kline frame of one of the task's symbols
KlineTaskRead(interval) ==
    /\ pipe.status = "running"
    /\ pipe.frames < MaxFrames
    /\ ~pipe.task[interval].sending.some
    /\ \E symbol \in IntervalSymbols(interval), is_closed \in BOOLEAN :
          pipe' = [pipe EXCEPT
                      !.frames = @ + 1,
                      !.task[interval] =
                          OnKlineFrame(@, [type |-> "Kline", symbol |-> symbol,
                                           serial |-> pipe.frames + 1,
                                           is_closed |-> is_closed])]
    /\ UNCHANGED pipe_frame

\* live_connector.rs 232: tx.send((symbol, kline)).await completes when the
\* channel has room
KlineTaskSend(interval) ==
    /\ pipe.status = "running"
    /\ pipe.task[interval].sending.some
    /\ Len(pipe.task[interval].rx) < PipeCapacity
    /\ pipe' = [pipe EXCEPT
                   !.task[interval].rx = Append(@, pipe.task[interval].sending.value),
                   !.task[interval].sending = None]
    /\ UNCHANGED pipe_frame

\* lib.rs 318: the handler task receives from the connector's channel
KlineHandlerRecv(interval) ==
    /\ pipe.status = "running"
    /\ ~pipe.task[interval].forwarding.some
    /\ pipe.task[interval].rx /= <<>>
    /\ pipe' = [pipe EXCEPT
                   !.task[interval].forwarding = Some(Head(pipe.task[interval].rx)),
                   !.task[interval].rx = Tail(@)]
    /\ UNCHANGED pipe_frame

\* lib.rs 319: tx.send(LiveEvent::Kline(..)).await completes when the fan-in
\* channel has room
KlineHandlerSend(interval) ==
    /\ pipe.status = "running"
    /\ pipe.task[interval].forwarding.some
    /\ Len(pipe.event_in) < PipeCapacity
    /\ pipe' = [pipe EXCEPT
                   !.event_in = Append(@, pipe.task[interval].forwarding.value),
                   !.task[interval].forwarding = None]
    /\ UNCHANGED pipe_frame

\* lib.rs 327: the book-ticker handler puts an event of its own in the fan-in
\* channel
TickerHandlerSend ==
    /\ pipe.status = "running"
    /\ pipe.frames < MaxFrames
    /\ Len(pipe.event_in) < PipeCapacity
    /\ \E symbol \in PipeSymbols :
          pipe' = [pipe EXCEPT
                      !.frames = @ + 1,
                      !.event_in = Append(@, [type |-> "BookTicker", symbol |-> symbol,
                                              serial |-> pipe.frames + 1])]
    /\ UNCHANGED pipe_frame

\* lib.rs 283-301: the main loop receives the next event and handle_event
\* takes it; a kline goes to process_kline_signal
MainLoopHandle ==
    /\ pipe.status = "running"
    /\ pipe.event_in /= <<>>
    /\ pipe' = [pipe EXCEPT
                   !.event_in = Tail(@),
                   !.handled = IF Head(pipe.event_in).type = "Kline"
                               THEN Append(@, Head(pipe.event_in))
                               ELSE @]
    /\ UNCHANGED pipe_frame

NextKlines ==
    \/ \E interval \in Intervals : KlineTaskRead(interval)
    \/ \E interval \in Intervals : KlineTaskSend(interval)
    \/ \E interval \in Intervals : KlineHandlerRecv(interval)
    \/ \E interval \in Intervals : KlineHandlerSend(interval)
    \/ TickerHandlerSend
    \/ MainLoopHandle

SpecKlines == InitKlines /\ [][NextKlines]_vars

\* the klines of a symbol still on their way to the main loop, oldest first
InFlight(interval, symbol) ==
    OfSymbol(pipe.event_in, symbol)
        \o OfSymbol(OptSeq(pipe.task[interval].forwarding), symbol)
        \o OfSymbol(pipe.task[interval].rx, symbol)
        \o OfSymbol(OptSeq(pipe.task[interval].sending), symbol)

\* C32: for each symbol the klines handled by the main loop are, in the same
\* order and without duplication or loss, the closed klines its stream task
\* received (those not handled yet are still queued in that order); updates of
\* a still-open kline never reach a strategy.
HandledKlinesAreReceivedKlines ==
    pipe.status = "running" =>
        /\ \A interval \in Intervals : \A symbol \in IntervalSymbols(interval) :
              OfSymbol(pipe.handled, symbol) \o InFlight(interval, symbol)
                  = OfSymbol(pipe.task[interval].received, symbol)
        /\ \A i \in 1..Len(pipe.handled) : pipe.handled[i].is_closed

\* two closed klines of one symbol were handled, an update of an open kline
\* was read in between and dropped, and a kline of another interval waits
HandledKlinesAreReceivedKlinesWitness ==
    /\ pipe.status = "running"
    /\ Len(OfSymbol(pipe.handled, "BTCUSDT")) = 2
    /\ pipe.handled[2].serial - pipe.handled[1].serial > 1
    /\ Len(pipe.task["5m"].received) = 1
    /\ InFlight("5m", "XRPUSDT") /= <<>>


-----------------------------------------------------------------------------
(* SpecSocket: handle_socket await by await                                 *)
(*                                                                         *)
(* The handler subscribes, sends Connected, reads the replay cache and then *)
(* forwards from the channel; the producers and the cache updater run       *)
(* between these steps.  delivered is the history of the PortfolioState     *)
(* snapshots sent to the client, by their place in broadcast order.         *)

\* main.rs 202-216 with Telegram not configured, and no client yet
InitSocket ==
    /\ PortfolioIdle
    /\ RiskIdle
    /\ BtIdle
    /\ EngIdle
    /\ ConnectorIdle
    /\ JobsIdle
    /\ GenIdle
    /\ CallIdle
    /\ PipeIdle
    /\ WfoIdle
    /\ bus = [buf |-> <<>>, tail |-> 0, attempts |-> 0,
              limit |-> MaxSends, last_state |-> 0, cache |-> 0,
              producer |-> [p \in Producers |-> [pc |-> "running"]],
              rx |-> [r \in Receivers |->
                         IF r = "cache" THEN ReceiverNew(1) ELSE NoReceiver],
              client |-> <<>>, sockets |-> 0,
              handler |-> "none", delivered |-> <<>>]

\* handlers.rs 122-132: a client connects; event_tx.subscribe() and the
\* Connected message
SocketSubscribe ==
    /\ bus.handler \in {"none", "closed"}
    /\ bus.sockets < MaxSockets
    /\ bus' = [bus EXCEPT !.sockets = @ + 1,
                          !.handler = "subscribed",
                          !.delivered = <<>>,
                          !.rx["socket"] = ReceiverNew(bus.tail + 1),
                          !.client = <<[kind |-> "Connected", seq |-> 0]>>]
    /\ UNCHANGED bus_frame

\* handlers.rs 135-146: the cache is read under its lock and the cached
\* PortfolioState, if any, is sent
SocketReplay ==
    /\ bus.handler = "subscribed"
    /\ bus' = [bus EXCEPT
                 !.handler = "loop",
                 !.delivered = IF bus.cache /= 0 THEN Append(@, bus.cache) ELSE @]
    /\ UNCHANGED bus_frame

\* handlers.rs 166-189: the select loop takes a result of event_rx.recv();
\* Ok is sent to the client, an Err breaks the loop
SocketForward ==
    /\ bus.handler = "loop"
    /\ CanRecv(bus, "socket")
    /\ LET res == RecvResult(bus, "socket")
           rx1 == AfterRecv(bus.rx["socket"], res)
       IN IF res.kind = "Ok"
          THEN bus' = [bus EXCEPT
                         !.rx["socket"] = rx1,
                         !.delivered = IF res.msg.kind = "PortfolioState"
                                       THEN Append(@, res.msg.seq) ELSE @]
          ELSE bus' = [bus EXCEPT !.rx["socket"] = [rx1 EXCEPT !.state = "dropped"],
                                  !.handler = "closed"]
    /\ UNCHANGED bus_frame

\* handlers.rs 192-212: the client closes or goes away
SocketClose ==
    /\ bus.handler \in {"subscribed", "loop"}
    /\ bus' = [bus EXCEPT !.rx["socket"].state = "dropped", !.handler = "closed"]
    /\ UNCHANGED bus_frame

NextSocket ==
    \/ ProducerNext
    \/ CacheUpdaterRecv
    \/ SocketSubscribe
    \/ SocketReplay
    \/ SocketForward
    \/ SocketClose

SpecSocket == InitSocket /\ [][NextSocket]_vars

\* C33: the PortfolioState snapshots delivered to one WebSocket subscriber are
\* in broadcast order: after a snapshot was sent, from the replay cache or from
\* the channel, no older snapshot is sent.
SnapshotsInBroadcastOrder ==
    \A i, j \in 1..Len(bus.delivered) :
        i < j => bus.delivered[i] <= bus.delivered[j]

=============================================================================
